---- MODULE Spec2Model ----
(***************************************************************************)
(* Pairs-trading scanner and backtester: the position state machine of     *)
(* BacktestUtils.backtest_pair, the trade arithmetic, the rolling z-score  *)
(* of PairScannerUtils.calculate_spread_stats, the leg ordering that       *)
(* travels from the screener through get_top_pairs into run_test, the      *)
(* screening loop of PairsScanner.find_cointegrated_pairs, and the         *)
(* performance metrics of SinglePairBacktest.generate_results and          *)
(* BacktestUtils.                                                          *)
(*                                                                         *)
(* Numbers.  The program computes in binary floating point (round to       *)
(* nearest, ties to even).  The model keeps that arithmetic but narrows    *)
(* the format: a float is an integer k standing for k / 2^FracBits that    *)
(* has at most Precision significant bits.  A value that may be NaN is a   *)
(* sequence: <<>> is NaN, <<k>> is the number k.                           *)
(***************************************************************************)
EXTENDS Integers, Sequences, FiniteSets, TLC

VARIABLES
    pc,               \* position of the running call
    caller,           \* "direct": backtest_pair on a caller-built frame; "run_test": through SinglePairBacktest.run_test
    df,               \* the frame handed to backtest_pair: per cell, the values it may hold
    zscore_window,    \* parameter zscore_window
    entry_threshold,  \* parameter entry_threshold
    capital,          \* parameter capital
    i,                \* loop index of backtest_pair
    cur,              \* the cells of row i the current iteration has read
    position,         \* <<>> is None, <<p>> an open position
    trades,           \* the list of trade dicts
    entries,          \* history: how many times a position was opened
    data,             \* the price matrix: per ticker, its price series
    results,          \* the list find_cointegrated_pairs returns
    top_pairs,        \* the rows get_top_pairs returns
    ticker1,          \* SinglePairBacktest.ticker1
    ticker2,          \* SinglePairBacktest.ticker2
    stats,            \* what calculate_spread_stats returned to run_test
    pairs_to_test,    \* find_cointegrated_pairs: the correlated pairs, in order
    pair_idx,         \* find_cointegrated_pairs: how many of them the loop has taken
    tested,           \* find_cointegrated_pairs: the counter tested
    cur_pair,         \* the pair the loop took last: its inputs and what it appended
    report,           \* what generate_results did: the dict it returned or the error it raised
    calc,             \* one call of a metric function: its arguments and its value
    log,              \* the error messages printed so far
    backtests,        \* run_backtests: how many rows it has taken and its list results
    sweep,            \* run_scanner: how many sectors it has taken, the last fetch and all_results
    tests,            \* per pair of tickers, what the statistical tests give on this price matrix
    first_run         \* what the previous call of find_cointegrated_pairs returned

scan == <<pairs_to_test, pair_idx, tested, cur_pair>>
aux == <<report, calc, log, backtests, sweep, tests, first_run>>

pipe == <<data, results, top_pairs, ticker1, ticker2, stats, scan, aux>>

vars == <<pc, caller, df, zscore_window, entry_threshold,
          capital, i, cur, position, trades, entries, pipe>>

----------------------------------------------------------------------------
(* Bounds of the model                                                     *)

Precision == 5
FracBits == 2
MaxBars == 5

Scale == 2^FracBits

----------------------------------------------------------------------------
(* Floating point                                                          *)

Abs(n) == IF n < 0 THEN -n ELSE n

RECURSIVE RoundExp(_, _, _)
RoundExp(a, d, e) == IF a < d * 2^(Precision + e) THEN e ELSE RoundExp(a, d, e + 1)

\* the float nearest to the rational n / d (d > 0), ties to even
Rnd(n, d) ==
    LET a  == Abs(n)
        e  == RoundExp(a, d, 0)
        u  == d * 2^e
        q  == a \div u
        r  == a - q * u
        q2 == IF 2 * r > u \/ (2 * r = u /\ q % 2 = 1) THEN q + 1 ELSE q
        m  == q2 * 2^e
    IN  IF n < 0 THEN -m ELSE m

fadd(a, b) == Rnd(a + b, 1)
fsub(a, b) == Rnd(a - b, 1)
fmul(a, b) == Rnd(a * b, Scale)
fdiv(a, b) == IF b < 0 THEN Rnd(-(a * Scale), -b) ELSE Rnd(a * Scale, b)

NaN == <<>>
None == <<>>
isna(v) == v = NaN

----------------------------------------------------------------------------
(* Inputs.  Prices, z-scores, hedge ratios and capital are floats in grid  *)
(* units (2^-FracBits); the three filter columns are only ever compared    *)
(* with constants, so they are kept in the unit of their constant: whole   *)
(* days for the half-life, hundredths for Hurst and the ADF p-value.       *)

Two == 2 * Scale
OneAndHalf == (3 * Scale) \div 2
Hundred == 100 * Scale

Thresholds == {Two}
Capitals == {21}
Windows == {1, 2}
DfLens == {1, MaxBars}
ZVals == {-2 * Two, -(Two + OneAndHalf), -Two, 0, Two, Two + OneAndHalf, 2 * Two}
PriceRows == {<<Scale, 2 * Scale>>, <<3 * Scale, 2 * Scale>>}
HedgeVals == {-3 * Scale}

\* rows of (Half_Life, Hurst, ADF_PValue): two that pass every filter, then
\* one per way of failing
GoodFilterRow == <<(<<5>>), (<<49>>), (<<4>>)>>
FilterRows == {GoodFilterRow, <<(<<30>>), (<<49>>), (<<4>>)>>,
               <<NaN, (<<49>>), (<<4>>)>>, <<(<<5>>), NaN, (<<4>>)>>, <<(<<5>>), (<<49>>), NaN>>,
               <<(<<4>>), (<<49>>), (<<4>>)>>, <<(<<31>>), (<<49>>), (<<4>>)>>,
               <<(<<5>>), (<<50>>), (<<4>>)>>, <<(<<5>>), (<<49>>), (<<5>>)>>}

\* inputs of the trade arithmetic
WideCapitals == {21, 10 * Scale, 25 * Scale}
WideHedges == {-3 * Scale, Scale \div 2, (3 * Scale) \div 2, (7 * Scale) \div 2}
WidePriceRows == {<<Scale, 2 * Scale>>, <<3 * Scale, 2 * Scale>>,
                  <<3 * Scale, 5 * Scale>>, <<7 * Scale, 3 * Scale>>}

HalfLifeMin == 5
HalfLifeMax == 30
HurstMax == 50
AdfPMax == 5

\* df.index[i]: the index is ascending without duplicates; bar i is day i
IndexDate(k) == k

----------------------------------------------------------------------------
(* Frames.  A frame gives, for every cell backtest_pair may read, the set  *)
(* of values the cell may hold; the value is drawn when the cell is read   *)
(* (each cell is read at most once).  Row k of the program is element      *)
(* k + 1 of the columns.                                                   *)

NoFrame == [zs |-> <<>>, px |-> <<>>, hr |-> {}, flt |-> {}, filter_cols |-> FALSE]

\* any z-score and price column; Hedge_Ratio is one scalar over the frame
FreeFrame(n, h) ==
    [zs |-> [k \in 1..n |-> {NaN} \cup {<<z>> : z \in ZVals}],
     px |-> [k \in 1..n |-> PriceRows],
     hr |-> {h}, flt |-> FilterRows, filter_cols |-> TRUE]

\* a LONG and a SHORT round trip over the same entry row e and exit row x
TradeFrame(e, x, h, t) ==
    [zs |-> <<{NaN}, {<<-t>>}, {<<0>>}, {<<t>>}, {<<0>>}>>,
     px |-> <<{e}, {e}, {x}, {e}, {x}>>,
     hr |-> {h}, flt |-> {GoodFilterRow}, filter_cols |-> TRUE]

df_len == Len(df.zs)
ZChoices(k) == df.zs[k + 1]
PriceChoices(k) == df.px[k + 1]
HedgeChoices(k) == df.hr
FilterChoices(k) == df.flt

\* the hedge ratio of the frame (Hedge_Ratio is one scalar over the frame)
FrameHedge == CHOOSE h \in df.hr : TRUE

\* df.index
frame_index == [k \in 1..df_len |-> IndexDate(k - 1)]

----------------------------------------------------------------------------
(* BacktestUtils.is_good_entry                                             *)

\* changed: a Hurst exponent of exactly 0.5 passes
is_good_entry_hurst_inclusive(half_life, hurst, adf_p_value) ==
    IF isna(half_life) \/ isna(hurst) \/ isna(adf_p_value) THEN FALSE
    ELSE IF ~(HalfLifeMin <= half_life[1] /\ half_life[1] <= HalfLifeMax) THEN FALSE
    ELSE IF hurst[1] > HurstMax THEN FALSE
    ELSE IF adf_p_value[1] >= AdfPMax THEN FALSE
    ELSE TRUE

is_good_entry(half_life, hurst, adf_p_value) ==
    IF isna(half_life) \/ isna(hurst) \/ isna(adf_p_value) THEN FALSE
    ELSE IF ~(HalfLifeMin <= half_life[1] /\ half_life[1] <= HalfLifeMax) THEN FALSE
    ELSE IF hurst[1] >= HurstMax THEN FALSE
    ELSE IF adf_p_value[1] >= AdfPMax THEN FALSE
    ELSE TRUE

----------------------------------------------------------------------------
(* BacktestUtils.backtest_pair: entry and exit rules                       *)

\* changed: the entry branch runs whether or not a position is open
is_flat_always(pos) == TRUE

is_flat(pos) == pos = None

\* changed: the LONG entry compares with the positive threshold
long_signal_unsigned(zscore, threshold) == zscore <= threshold

\* if zscore <= -entry_threshold
long_signal(zscore, threshold) == zscore <= -threshold
short_signal(zscore, threshold) == zscore >= threshold

\* the side the entry branch opens, "" when it opens none
entry_type(zscore, threshold, good) ==
    IF long_signal(zscore, threshold) /\ good THEN "LONG"
    ELSE IF short_signal(zscore, threshold) /\ good THEN "SHORT"
    ELSE ""

\* changed: the stop fires at exactly 1.5 from the entry z-score
exit_reason_inclusive_stop(type, entry_zscore, zscore) ==
    IF type = "LONG" /\ zscore >= 0 THEN "Mean Reversion"
    ELSE IF type = "SHORT" /\ zscore <= 0 THEN "Mean Reversion"
    ELSE IF type = "LONG" /\ zscore <= fsub(entry_zscore, OneAndHalf) THEN "Stop Loss"
    ELSE IF type = "SHORT" /\ zscore >= fadd(entry_zscore, OneAndHalf) THEN "Stop Loss"
    ELSE ""

\* exit_reason after the if/elif chain; "" means exit_signal stayed False
exit_reason(type, entry_zscore, zscore) ==
    IF type = "LONG" /\ zscore >= 0 THEN "Mean Reversion"
    ELSE IF type = "SHORT" /\ zscore <= 0 THEN "Mean Reversion"
    ELSE IF type = "LONG" /\ zscore < fsub(entry_zscore, OneAndHalf) THEN "Stop Loss"
    ELSE IF type = "SHORT" /\ zscore > fadd(entry_zscore, OneAndHalf) THEN "Stop Loss"
    ELSE ""

new_position(type, date, zscore, s1, s2, hr) ==
    [type |-> type, entry_date |-> date, entry_zscore |-> zscore,
     stock1_price |-> s1, stock2_price |-> s2, hedge_ratio |-> hr]

\* changed: a NaN bar drops the open position
position_after_nan_dropped(pos) == None

\* if pd.isna(zscore): continue
position_after_nan(pos) == pos

\* changed: the position is not reset after the trade is appended
position_after_exit_kept(p) == <<p>>

\* position = None  # Reset position
position_after_exit(p) == None

\* changed: a position still open at the end is closed into the ledger
returned_ledger_liquidated(ledger, pos) ==
    IF pos = None THEN ledger
    ELSE Append(ledger, [Entry_Date |-> pos[1].entry_date, Position |-> pos[1].type,
                         Exit_Reason |-> "End Of Data"])

\* return pd.DataFrame(trades)
returned_ledger(ledger, pos) == ledger

----------------------------------------------------------------------------
(* BacktestUtils.backtest_pair: trade arithmetic                           *)

\* changed: the hedge ratio is used with its sign
stock1_allocation_signed(cap, hr) == fdiv(cap, fadd(Scale, hr))

stock1_allocation(cap, hr) == fdiv(cap, fadd(Scale, Abs(hr)))
stock2_allocation(cap, alloc1) == fsub(cap, alloc1)
shares(alloc, price) == fdiv(alloc, price)

stock1_pnl(type, sh, entry_price, exit_price) ==
    IF type = "LONG" THEN fmul(sh, fsub(entry_price, exit_price))
    ELSE fmul(sh, fsub(exit_price, entry_price))

\* changed: leg 2 is treated as bought on both sides
stock2_pnl_always_bought(type, sh, entry_price, exit_price) ==
    fmul(sh, fsub(exit_price, entry_price))

stock2_pnl(type, sh, entry_price, exit_price) ==
    IF type = "LONG" THEN fmul(sh, fsub(exit_price, entry_price))
    ELSE fmul(sh, fsub(entry_price, exit_price))

pnl_percent(total, cap) == fmul(fdiv(total, cap), Hundred)

make_trade(p, date, zscore, x1, x2, cap, reason) ==
    LET a1 == stock1_allocation(cap, p.hedge_ratio)
        a2 == stock2_allocation(cap, a1)
        n1 == shares(a1, p.stock1_price)
        n2 == shares(a2, p.stock2_price)
        total == fadd(stock1_pnl(p.type, n1, p.stock1_price, x1),
                      stock2_pnl(p.type, n2, p.stock2_price, x2))
    IN  [Entry_Date |-> p.entry_date, Exit_Date |-> date, Position |-> p.type,
         Days_held |-> date - p.entry_date, Win |-> total > 0,
         Entry_ZScore |-> p.entry_zscore, Exit_ZScore |-> zscore,
         Entry_Stock1_Price |-> p.stock1_price, Exit_Stock1_Price |-> x1,
         Entry_Stock2_Price |-> p.stock2_price, Exit_Stock2_Price |-> x2,
         Stock1_Shares |-> n1, Stock2_Shares |-> n2,
         Stock1_Capital |-> a1, Stock2_Capital |-> a2,
         Total_Capital |-> fadd(a1, a2), Hedge_Ratio |-> Abs(p.hedge_ratio),
         PnL |-> total, PnL_pct |-> pnl_percent(total, cap),
         Exit_Reason |-> reason]

----------------------------------------------------------------------------
(* The cells of row i one iteration reads.  A cell the iteration does not  *)
(* read stays <<>>.                                                        *)

Row(k, z, px, hr, flt) == [index |-> k, zscore |-> z, prices |-> px, hedge |-> hr, filter |-> flt]
NoRow == Row(-1, NaN, <<>>, <<>>, <<>>)

----------------------------------------------------------------------------
(* Price data.  A ticker's prices are whole numbers; as a column of a      *)
(* frame the price p is the float p * Scale.                               *)

Tickers == {"A", "B"}

Series(kind, n) ==
    [k \in 1..n |->
        CASE kind = "flat" -> 2
          [] kind = "ramp" -> k
          [] kind = "zig"  -> 1 + (k % 2)
          [] kind = "step" -> IF 2 * k <= n THEN 1 ELSE 3]

SeriesKinds == {"flat", "ramp", "zig", "step"}
DataSets == {[A |-> Series(ka, MaxBars), B |-> Series(kb, MaxBars)] : ka \in SeriesKinds, kb \in SeriesKinds}
NoData == [A |-> <<>>, B |-> <<>>]

RECURSIVE SumProd(_, _, _)
SumProd(x, y, k) == IF k = 0 THEN 0 ELSE x[k] * y[k] + SumProd(x, y, k - 1)

Ones(n) == [k \in 1..n |-> 1]

Sign(n) == IF n > 0 THEN 1 ELSE IF n < 0 THEN -1 ELSE 0

----------------------------------------------------------------------------
(* PairScannerUtils.calculate_spread_stats                                 *)

\* np.linalg.lstsq of y on [x, 1]: the slope as the fraction <<num, den>>,
\* den > 0; for a constant x the design matrix has rank 1 and lstsq
\* returns the solution of least norm
lstsq_beta(x, y) ==
    LET n   == Len(x)
        Sx  == SumProd(x, Ones(n), n)
        Sy  == SumProd(y, Ones(n), n)
        Sxx == SumProd(x, x, n)
        Sxy == SumProd(x, y, n)
        D   == n * Sxx - Sx * Sx
    IN  IF D # 0 THEN <<n * Sxy - Sx * Sy, D>>
        ELSE <<x[1] * Sy, n * (x[1] * x[1] + 1)>>

\* den * (spread[a] - spread[b]) for spread = y - beta * x - intercept
SpreadDiff(x, y, beta, a, b) == beta[2] * (y[a] - y[b]) - beta[1] * (x[a] - x[b])

\* rolling(window).mean() and .std() at row k: defined once the window
\* [k - window + 1, k] is full; the z-score is NaN when the std is 0 or NaN
rolling_defined(x, y, beta, window, k) ==
    /\ k + 1 >= window
    /\ \E j \in (k + 2 - window)..(k + 1) : SpreadDiff(x, y, beta, k + 1, j) # 0

\* sign of spread[k] - rolling_mean[k]
rolling_sign(x, y, beta, window, k) ==
    LET RECURSIVE Acc(_)
        Acc(j) == IF j < k + 2 - window THEN 0
                  ELSE SpreadDiff(x, y, beta, k + 1, j) + Acc(j - 1)
    IN  Sign(Acc(k + 1))

calculate_spread_stats(stock_x, stock_y, window) ==
    [hedge_ratio |-> lstsq_beta(stock_x, stock_y), x |-> stock_x, y |-> stock_y]

NoStats == [hedge_ratio |-> <<0, 1>>, x |-> <<>>, y |-> <<>>]

SameRatio(a, b) == a[1] * b[2] = b[1] * a[2]

\* the frame run_test hands to backtest_pair: the two price columns, ZScore
\* (its magnitude is left open, its sign and its NaNs are those of the
\* rolling z-score) and the scalar Hedge_Ratio; no filter column is set
RunFrame(st, window) ==
    LET n == Len(st.x)
    IN  [zs |-> [k \in 1..n |->
                   IF rolling_defined(st.x, st.y, st.hedge_ratio, window, k - 1)
                   THEN {<<z>> : z \in {v \in ZVals :
                            Sign(v) = rolling_sign(st.x, st.y, st.hedge_ratio, window, k - 1)}}
                   ELSE {NaN}],
         px |-> [k \in 1..n |-> {<<st.x[k] * Scale, st.y[k] * Scale>>}],
         hr |-> {Rnd(st.hedge_ratio[1] * Scale, st.hedge_ratio[2])},
         flt |-> {}, filter_cols |-> FALSE]

----------------------------------------------------------------------------
(* PairScannerUtils.calculate_spread_stats, the whole dict it returns.  A  *)
(* z-score is NaN or <<s>>, s its sign; a float the model does not compute *)
(* is Unmodelled.                                                          *)

Unmodelled == "float"

\* calculate_half_life fits only when len(lagged_spread) > 10
HalfLifeMinPoints == 10

\* range(window, len(rolling_zscore) - 10)
ReversionTail == 10

\* a step inside the try block raises: lstsq on columns of different
\* lengths, or rolling() on a negative window
stats_raises(stock_x, stock_y, window) ==
    Len(stock_x) # Len(stock_y) \/ window < 0

\* changed: the handler reports a half-life and a reversion rate of 0
fallback_stats_zero_rates ==
    [hedge_ratio |-> <<1, 1>>, spread |-> <<>>, spread_mean |-> 0, spread_std |-> 1,
     current_zscore |-> 0, full_period_zscore |-> 0, halflife |-> <<0>>,
     zscore_mean |-> 0, zscore_std |-> 1, zscore_min |-> 0, zscore_max |-> 0,
     reversion_rate |-> <<0>>, spread_series |-> <<>>, rolling_zscore_series |-> <<>>,
     hurst |-> <<>>, halflife_series |-> <<>>, adf_pvalue |-> <<>>]

\* the dict of the except branch
fallback_stats ==
    [hedge_ratio |-> <<1, 1>>, spread |-> <<>>, spread_mean |-> 0, spread_std |-> 1,
     current_zscore |-> 0, full_period_zscore |-> 0, halflife |-> None,
     zscore_mean |-> 0, zscore_std |-> 1, zscore_min |-> 0, zscore_max |-> 0,
     reversion_rate |-> None, spread_series |-> <<>>, rolling_zscore_series |-> <<>>,
     hurst |-> <<>>, halflife_series |-> <<>>, adf_pvalue |-> <<>>]

\* changed: the rolling mean and std are defined from the first row on
rolling_zscore_partial(stock_x, stock_y, beta, window) ==
    [k \in 1..Len(stock_x) |->
        IF k > 1 THEN <<Sign(SpreadDiff(stock_x, stock_y, beta, k, 1))>> ELSE NaN]

\* (spread - rolling_mean) / rolling_std, row by row
rolling_zscore(stock_x, stock_y, beta, window) ==
    [k \in 1..Len(stock_x) |->
        IF rolling_defined(stock_x, stock_y, beta, window, k - 1)
        THEN <<rolling_sign(stock_x, stock_y, beta, window, k - 1)>>
        ELSE NaN]

\* the dict calculate_spread_stats returns; the spread is kept as
\* den * (spread[k] - spread[1])
spread_stats(stock_x, stock_y, window) ==
    IF stats_raises(stock_x, stock_y, window) THEN fallback_stats
    ELSE LET n      == Len(stock_x)
             beta   == IF n = 0 THEN <<0, 1>> ELSE lstsq_beta(stock_x, stock_y)
             spread == [k \in 1..n |-> SpreadDiff(stock_x, stock_y, beta, k, 1)]
             z      == rolling_zscore(stock_x, stock_y, beta, window)
         IN  [hedge_ratio |-> beta, spread |-> spread, spread_mean |-> Unmodelled,
              spread_std |-> Unmodelled,
              current_zscore |-> IF n = 0 THEN 0 ELSE z[n],
              full_period_zscore |-> IF n = 0 THEN 0 ELSE Unmodelled,
              halflife |-> IF n - 1 > HalfLifeMinPoints THEN Unmodelled ELSE None,
              zscore_mean |-> Unmodelled, zscore_std |-> Unmodelled,
              zscore_min |-> Unmodelled, zscore_max |-> Unmodelled,
              reversion_rate |-> IF n - ReversionTail > window THEN Unmodelled ELSE None,
              spread_series |-> spread, rolling_zscore_series |-> z,
              hurst |-> [k \in 1..n |-> Unmodelled],
              halflife_series |-> [k \in 1..n |-> Unmodelled],
              adf_pvalue |-> [k \in 1..n |-> Unmodelled]]

\* spread = pair_data[stock_y] - spread_stats['hedge_ratio'] * pair_data[stock_x]:
\* den * spread[k] as the screener rebuilds it from the dict
scanner_spread(stock_x, stock_y, st) ==
    [k \in 1..Len(stock_x) |-> st.hedge_ratio[2] * stock_y[k] - st.hedge_ratio[1] * stock_x[k]]

StatsWindows == {-1, 0, 1, 2, 3}
StatsSeries == {Series(kind, n) : kind \in {"ramp", "zig", "flat"}, n \in 0..MaxBars}

----------------------------------------------------------------------------
(* PairScannerUtils.calculate_half_life and the half-life of the stats.    *)
(* The fit is an input: the number of valid points, the sign of theta and  *)
(* the quotient -ln(2) / theta in whole days.                              *)

\* halflife = -np.log(2) / theta if theta < 0 else None, on more than 10
\* points; return halflife if halflife and halflife > 0 else None
calculate_half_life(n_points, theta_sign, quotient) ==
    LET halflife == IF n_points > HalfLifeMinPoints /\ theta_sign < 0 THEN <<quotient>> ELSE None
    IN  IF halflife # None /\ halflife[1] # 0 /\ halflife[1] > 0 THEN halflife ELSE None

HalfLifeCap == 365

\* 'halflife': halflife if halflife and 0 < halflife < 365 else None
reported_halflife(halflife) ==
    IF halflife # None /\ halflife[1] # 0 /\ 0 < halflife[1] /\ halflife[1] < HalfLifeCap
    THEN halflife ELSE None

FitPoints == {10, 11, 59}
FitQuotients == {1, 10, 30, 364, 365, 366}

----------------------------------------------------------------------------
(* calculate_spread_stats: the mean reversion success rate, computed from  *)
(* the rolling z-score series.  A z-score is NaN or <<k>>, k in grid units. *)

\* future_z = rolling_zscore.iloc[i+1:i+21]
Horizon == 20

\* 0.5
NearZero == Scale \div 2

\* future_z.min(): the least defined value of rows a..b (0-based), NaN when none is
future_min(z, a, b) ==
    LET vals == {z[j + 1][1] : j \in {k \in a..b : k < Len(z) /\ ~isna(z[k + 1])}}
    IN  IF vals = {} THEN NaN ELSE <<CHOOSE m \in vals : \A v \in vals : m <= v>>

\* future_z.max()
future_max(z, a, b) ==
    LET vals == {z[j + 1][1] : j \in {k \in a..b : k < Len(z) /\ ~isna(z[k + 1])}}
    IN  IF vals = {} THEN NaN ELSE <<CHOOSE m \in vals : \A v \in vals : m >= v>>

\* changed: the loop runs to the last row
last_counted_row_to_the_end(z) == Len(z) - 1

\* for i in range(zscore_window, len(rolling_zscore) - 10): the last i
last_counted_row(z) == Len(z) - ReversionTail - 1

\* the loop from row i on: <<crosses, successes>>
RECURSIVE reversion_counts(_, _, _)
reversion_counts(z, threshold, row) ==
    IF row > last_counted_row(z) THEN <<0, 0>>
    ELSE LET zi   == z[row + 1]
             rest == reversion_counts(z, threshold, row + 1)
             lo   == future_min(z, row + 1, row + Horizon)
             hi   == future_max(z, row + 1, row + Horizon)
             success == \/ zi[1] > 0 /\ ~isna(lo) /\ lo[1] < NearZero
                        \/ zi[1] < 0 /\ ~isna(hi) /\ hi[1] > -NearZero
         IN  IF ~isna(zi) /\ Abs(zi[1]) >= threshold
             THEN <<rest[1] + 1, rest[2] + (IF success THEN 1 ELSE 0)>>
             ELSE rest

\* reversion_rate = (successes / crosses * 100) if crosses > 0 else None
reversion_rate(z, window, threshold) ==
    LET c == reversion_counts(z, threshold, window)
    IN  IF c[1] > 0 THEN <<fmul(fdiv(c[2] * Scale, c[1] * Scale), Hundred)>> ELSE None

MaxZLen == 33
ZLens == {12, 23, MaxZLen}

\* a series that is base everywhere but at rows p and q
ZSeries(n, base, p, t, q, r) ==
    [k \in 1..n |-> IF k = p THEN t ELSE IF k = q THEN r ELSE base]

ZSeriesSet ==
    {ZSeries(n, base, p, t, q, r) :
        n \in ZLens, base \in {<<Scale>>, <<3 * Scale>>, NaN}, p \in 1..MaxZLen,
        t \in {<<3 * Scale>>, <<-3 * Scale>>, <<Two>>}, q \in 1..MaxZLen,
        r \in {<<Scale \div 4>>, <<-(Scale \div 4)>>, <<NearZero>>, NaN}}

----------------------------------------------------------------------------
(* PairsScanner.find_cointegrated_pairs, one candidate pair.  The p-values *)
(* of coint and adfuller, the Hurst exponent and the other diagnostics are *)
(* inputs; p-values are in thousandths, Hurst in hundredths.               *)

MinOverlap == 100
MaxPValue == 50
GatePValue == 10
GateAdfPValue == 50
GateHalfLifeMin == 10
GateHalfLifeMax == 30
GateHurst == 50
GateZeroCrossings == 15
GateReversionRate == 75
GateZScore == (7 * Scale) \div 2

Overlaps == {99, 100}
PValues == {5, 8, 60}
DiagRows ==
    {[adf |-> 50, half_life |-> <<10>>, hurst |-> 49, zero_crossings |-> 15,
      reversion_rate |-> <<75>>, current_zscore |-> <<GateZScore>>],
     [adf |-> 10, half_life |-> <<30>>, hurst |-> 10, zero_crossings |-> 20,
      reversion_rate |-> None, current_zscore |-> <<0>>],
     [adf |-> 10, half_life |-> <<20>>, hurst |-> 50, zero_crossings |-> 20,
      reversion_rate |-> <<80>>, current_zscore |-> <<0>>]}

passes_quality_gate(best_pvalue, dg) ==
    /\ ~(best_pvalue > GatePValue)
    /\ ~(dg.adf > GateAdfPValue)
    /\ ~(dg.half_life = None \/ dg.half_life[1] < GateHalfLifeMin \/ dg.half_life[1] > GateHalfLifeMax)
    /\ ~(dg.hurst >= GateHurst)
    /\ ~(dg.zero_crossings < GateZeroCrossings)
    /\ ~(dg.reversion_rate # None /\ dg.reversion_rate[1] < GateReversionRate)
    /\ ~(~isna(dg.current_zscore) /\ Abs(dg.current_zscore[1]) > GateZScore)

\* changed: the direction with the higher p-value is taken
optimal_direction_worst(pvalue1, pvalue2) == IF pvalue1 < pvalue2 THEN 2 ELSE 1

\* if pvalue1 < pvalue2: direction = 1, else: direction = 2
optimal_direction(pvalue1, pvalue2) == IF pvalue1 < pvalue2 THEN 1 ELSE 2

\* what the body of the loop appends to results for the pair (t1, t2)
screen_pair(dat, t1, t2, n_overlap, pvalue1, pvalue2, dg) ==
    IF n_overlap < MinOverlap THEN <<>>
    ELSE IF ~(pvalue1 < MaxPValue \/ pvalue2 < MaxPValue) THEN <<>>
    ELSE LET direction == optimal_direction(pvalue1, pvalue2)
             stock_y == IF direction = 1 THEN t1 ELSE t2
             stock_x == IF direction = 1 THEN t2 ELSE t1
             best_pvalue == IF direction = 1 THEN pvalue1 ELSE pvalue2
             st == calculate_spread_stats(dat[stock_x], dat[stock_y], 0)
         IN  IF ~passes_quality_gate(best_pvalue, dg) THEN <<>>
             ELSE <<[Stock_1 |-> stock_x, Stock_2 |-> stock_y,
                     Coint_PValue |-> best_pvalue, Optimal_Direction |-> direction,
                     Alt_PValue |-> IF direction = 1 THEN pvalue2 ELSE pvalue1,
                     Hedge_Ratio |-> st.hedge_ratio, diag |-> dg]>>

\* changed: a pair skipped for its short overlap still counts as tested
tested_after_counting_skipped(n, n_overlap) == n + 2

\* tested += 1 after each of the two coint calls, which a skipped pair never reaches
tested_after(n, n_overlap) == IF n_overlap < MinOverlap THEN n ELSE n + 2

----------------------------------------------------------------------------
(* PairsScanner.find_cointegrated_pairs: the guards before the loop        *)

\* data.columns, in the order of the frame
TickerOrder == <<"A", "B", "C">>
columns(dat) == SelectSeq(TickerOrder, LAMBDA t : t \in DOMAIN dat)

\* data.empty: no column or no row
is_empty(dat) == DOMAIN dat = {} \/ \A t \in DOMAIN dat : dat[t] = <<>>

\* min_correlation, in hundredths
MinCorrelation == 70

\* changed: every pair of columns is taken, whatever its correlation
reaches_min_correlation_always(x, y) == TRUE

\* abs(corr) >= min_correlation for the Pearson correlation of two columns;
\* a constant column gives NaN, which compares False
reaches_min_correlation(x, y) ==
    LET n   == Len(x)
        cov == n * SumProd(x, y, n) - SumProd(x, Ones(n), n) * SumProd(y, Ones(n), n)
        vx  == n * SumProd(x, x, n) - SumProd(x, Ones(n), n) * SumProd(x, Ones(n), n)
        vy  == n * SumProd(y, y, n) - SumProd(y, Ones(n), n) * SumProd(y, Ones(n), n)
    IN  vx # 0 /\ vy # 0 /\ 10000 * cov * cov >= MinCorrelation * MinCorrelation * vx * vy

\* for i in range(n): for j in range(i+1, n): the pairs that reach it, in order
RECURSIVE pairs_from(_, _, _, _)
pairs_from(dat, cols, a, b) ==
    IF a > Len(cols) THEN <<>>
    ELSE IF b > Len(cols) THEN pairs_from(dat, cols, a + 1, a + 2)
    ELSE (IF reaches_min_correlation(dat[cols[a]], dat[cols[b]])
          THEN <<(<<cols[a], cols[b]>>)>> ELSE <<>>)
         \o pairs_from(dat, cols, a, b + 1)

correlated_pairs(dat) == pairs_from(dat, columns(dat), 1, 2)

NoPair == [pair |-> <<>>, n_overlap |-> 0, pvalue1 |-> 0, pvalue2 |-> 0, appended |-> <<>>,
           failed |-> FALSE]

\* price matrices without rows or with one column only
DegenerateData == {[A |-> <<>>, B |-> <<>>], [A |-> Series("ramp", MaxBars)]}

\* three-column matrices: three, one and one correlated pairs
WideDataSets ==
    {[A |-> Series("ramp", MaxBars), B |-> Series(kb, MaxBars), C |-> Series(kc, MaxBars)] :
        <<kb, kc>> \in {<<"ramp", "step">>, <<"step", "zig">>, <<"zig", "ramp">>}}

WidePValues == {5, 10, 11, 50}

\* DiagRows, a row whose current z-score is NaN, and one row per gate it fails
WideDiagRows ==
    LET ok == [adf |-> 10, half_life |-> <<20>>, hurst |-> 10, zero_crossings |-> 20,
               reversion_rate |-> <<80>>, current_zscore |-> <<0>>]
    IN  DiagRows \cup
        {[ok EXCEPT !.current_zscore = NaN],
         [ok EXCEPT !.adf = 51],
         [ok EXCEPT !.half_life = None],
         [ok EXCEPT !.half_life = <<9>>],
         [ok EXCEPT !.half_life = <<31>>],
         [ok EXCEPT !.zero_crossings = 14],
         [ok EXCEPT !.reversion_rate = <<74>>],
         [ok EXCEPT !.current_zscore = <<-(GateZScore + 1)>>]}

----------------------------------------------------------------------------
(* BacktestPairTrading.get_top_pairs: the swap on Optimal_Direction == 2   *)

load_pair(row) ==
    IF row.Optimal_Direction = 2
    THEN [row EXCEPT !.Stock_1 = row.Stock_2, !.Stock_2 = row.Stock_1]
    ELSE row

RunWindows == {2, 3}

\* changed: the loop starts one row early
loop_start_early(window) == window - 1

\* for i in range(zscore_window, len(df))
loop_start(window) == window

----------------------------------------------------------------------------
(* Performance metrics (BacktestUtils).  A metric is a float <<k>>, NaN,    *)
(* an infinity, or a non-zero value of known sign whose magnitude the      *)
(* model leaves open (a power, or a ratio to a standard deviation).        *)

Inf == <<1, 0>>
NegInf == <<-1, 0>>
Open(s) == <<s, 0, 0>>

\* the sign of a metric; NaN compares False with everything and has none
metric_sign(m) ==
    IF Len(m) = 1 THEN Sign(m[1]) ELSE IF Len(m) = 0 THEN 0 ELSE m[1]

\* Series.dropna(): the values that are not NaN, in order
RECURSIVE dropna(_)
dropna(s) ==
    IF s = <<>> THEN <<>>
    ELSE IF isna(Head(s)) THEN dropna(Tail(s))
    ELSE <<Head(s)[1]>> \o dropna(Tail(s))

\* floating-point sum in index order, 0 for no value
RECURSIVE fsum(_)
fsum(v) == IF v = <<>> THEN 0 ELSE fadd(fsum(SubSeq(v, 1, Len(v) - 1)), v[Len(v)])

RECURSIVE SeqMax(_)
SeqMax(v) ==
    IF Len(v) = 1 THEN v[1]
    ELSE LET m == SeqMax(Tail(v)) IN IF v[1] >= m THEN v[1] ELSE m

\* Series.sum() and Series.max(): NaN entries are skipped
series_sum(s) == fsum(dropna(s))
series_max(s) == IF dropna(s) = <<>> THEN NaN ELSE <<SeqMax(dropna(s))>>

\* the PnL ($) column of the frame pd.DataFrame(trades)
pnl_column(ledger) == [k \in 1..Len(ledger) |-> <<ledger[k].PnL>>]

\* initial_capital + pnl_series.cumsum()
equity_curve(pnl_series, initial_capital) ==
    [k \in 1..Len(pnl_series) |->
        IF isna(pnl_series[k]) THEN NaN
        ELSE <<fadd(initial_capital, series_sum(SubSeq(pnl_series, 1, k)))>>]

\* equity_curve.expanding().max()
expanding_max(equity_curve_) ==
    [k \in 1..Len(equity_curve_) |-> series_max(SubSeq(equity_curve_, 1, k))]

\* running_max - equity_curve, one row
drawdown_at(peak, equity) ==
    IF isna(peak) \/ isna(equity) THEN NaN ELSE <<fsub(peak[1], equity[1])>>

\* the same with the initial capital as the first peak candidate
calculate_max_drawdown_from_capital(pnl_series, initial_capital) ==
    IF pnl_series = <<>> THEN <<0, 0>>
    ELSE LET equity == equity_curve(pnl_series, initial_capital)
             running_max == Tail(expanding_max(<<<<initial_capital>>>> \o equity))
             drawdown == [k \in 1..Len(equity) |-> drawdown_at(running_max[k], equity[k])]
             dmax == series_max(drawdown)
             max_drawdown_dollars == IF isna(dmax) THEN 0 ELSE dmax[1]
             max_drawdown_pct ==
                 IF initial_capital > 0
                 THEN fmul(fdiv(max_drawdown_dollars, initial_capital), Hundred)
                 ELSE 0
         IN  <<max_drawdown_dollars, max_drawdown_pct>>

\* returns <<max_drawdown_dollars, max_drawdown_pct>>
calculate_max_drawdown(pnl_series, initial_capital) ==
    IF pnl_series = <<>> THEN <<0, 0>>
    ELSE LET equity == equity_curve(pnl_series, initial_capital)
             running_max == expanding_max(equity)
             drawdown == [k \in 1..Len(equity) |-> drawdown_at(running_max[k], equity[k])]
             dmax == series_max(drawdown)
             max_drawdown_dollars == IF isna(dmax) THEN 0 ELSE dmax[1]
             max_drawdown_pct ==
                 IF initial_capital > 0
                 THEN fmul(fdiv(max_drawdown_dollars, initial_capital), Hundred)
                 ELSE 0
         IN  <<max_drawdown_dollars, max_drawdown_pct>>

\* the rows of a one-column frame that satisfy a comparison with 0
positive_rows(pnl_series) == SelectSeq(pnl_series, LAMBDA x : ~isna(x) /\ x[1] > 0)
negative_rows(pnl_series) == SelectSeq(pnl_series, LAMBDA x : ~isna(x) /\ x[1] < 0)

gross_profit(pnl_series) == series_sum(positive_rows(pnl_series))
gross_loss(pnl_series) == Abs(series_sum(negative_rows(pnl_series)))

\* changed: without a losing trade the profit factor is 0
calculate_profit_factor_zero_without_losers(pnl_series) ==
    IF pnl_series = <<>> THEN <<0>>
    ELSE IF gross_loss(pnl_series) > 0
         THEN <<fdiv(gross_profit(pnl_series), gross_loss(pnl_series))>>
    ELSE <<0>>

\* trades_df is given by its PnL ($) column; a frame without rows comes
\* from pd.DataFrame([]) and has no column at all
calculate_profit_factor(pnl_series) ==
    IF pnl_series = <<>> THEN <<0>>
    ELSE IF gross_loss(pnl_series) > 0
         THEN <<fdiv(gross_profit(pnl_series), gross_loss(pnl_series))>>
    ELSE IF gross_profit(pnl_series) > 0 THEN Inf
    ELSE <<0>>

\* (base ** (1 / years) - 1) * 100 for years > 0, base a numpy float: a
\* negative base gives NaN, 0 ** x is 0 and 1 ** x is 1
annual_growth_pct(base, total_days) ==
    IF base < 0 THEN NaN
    ELSE IF base = 0 THEN <<-Hundred>>
    ELSE IF base = Scale THEN <<0>>
    ELSE IF base < Scale THEN Open(-1)
    ELSE Open(1)

\* date_index[-1] - date_index[0] in days
total_days_of(date_index) == date_index[Len(date_index)] - date_index[1]

calculate_annualized_return(total_pnl, initial_capital, date_index) ==
    IF initial_capital <= 0 \/ date_index = <<>> THEN <<0>>
    ELSE IF total_days_of(date_index) <= 0 THEN <<0>>
    ELSE LET total_return == fdiv(total_pnl, initial_capital)
         IN  annual_growth_pct(fadd(Scale, total_return), total_days_of(date_index))

calculate_cagr(total_pnl, initial_capital, date_index) ==
    IF initial_capital <= 0 \/ date_index = <<>> THEN <<0>>
    ELSE IF total_days_of(date_index) <= 0 THEN <<0>>
    ELSE LET final_value == fadd(initial_capital, total_pnl)
         IN  IF final_value <= 0 THEN <<0>>
             ELSE annual_growth_pct(fdiv(final_value, initial_capital),
                                    total_days_of(date_index))

\* Series.std() (ddof = 1) of the values that are not NaN: "nan" for fewer
\* than two values, "zero" when they are all equal, "pos" otherwise
std_class(v) ==
    IF Len(v) < 2 THEN "nan"
    ELSE IF \A k \in 1..Len(v) : v[k] = v[1] THEN "zero"
    ELSE "pos"

\* the sign of (pnl_series - daily_rf_rate).mean(): the daily risk-free
\* rate 0.02 / 252 is positive and below every positive PnL
excess_mean_sign(pnl_series) ==
    IF dropna(pnl_series) = <<>> THEN 0
    ELSE IF series_sum(pnl_series) > 0 THEN 1 ELSE -1

calculate_sharpe_ratio(pnl_series) ==
    IF pnl_series = <<>> \/ std_class(dropna(pnl_series)) = "zero" THEN <<0>>
    ELSE IF std_class(dropna(pnl_series)) = "pos"
         THEN Open(excess_mean_sign(pnl_series))
    ELSE <<0>>

calculate_volatility(pnl_series) ==
    IF pnl_series = <<>> THEN <<0>>
    ELSE CASE std_class(dropna(pnl_series)) = "nan" -> NaN
           [] std_class(dropna(pnl_series)) = "zero" -> <<0>>
           [] OTHER -> Open(1)

calculate_sortino_ratio(pnl_series) ==
    IF pnl_series = <<>> THEN <<0>>
    ELSE LET downside_returns == SelectSeq(dropna(pnl_series), LAMBDA x : x <= 0)
         IN  IF downside_returns = <<>>
             THEN IF excess_mean_sign(pnl_series) > 0 THEN Inf ELSE <<0>>
             ELSE IF std_class(downside_returns) = "pos"
                  THEN Open(excess_mean_sign(pnl_series))
             ELSE <<0>>

calculate_calmar_ratio(annualized_return, max_drawdown_pct) ==
    IF max_drawdown_pct = 0
    THEN IF metric_sign(annualized_return) > 0 THEN Inf ELSE <<0>>
    ELSE IF Len(annualized_return) = 1
         THEN <<fdiv(annualized_return[1], max_drawdown_pct)>>
    ELSE IF isna(annualized_return) THEN NaN
    ELSE Open(metric_sign(annualized_return) * Sign(max_drawdown_pct))

----------------------------------------------------------------------------
(* SinglePairBacktest.generate_results.  A value of the result dict        *)
(* carries its Python type: len() gives an int, a pandas reduction a numpy *)
(* scalar (np.float64 is a float, np.int64 is not an int).  An int counts  *)
(* in units; a float is a metric as above.                                 *)

PyInt(k) == [t |-> "int", v |-> <<k>>]
NpInt(k) == [t |-> "int64", v |-> <<k>>]
Float(m) == [t |-> "float", v |-> m]
Str(s) == [t |-> "str", v |-> s]
PyNone == [t |-> "NoneType", v |-> None]

\* 'col' in trades_df.columns for trades_df = pd.DataFrame(trades): the
\* columns are the keys of the trade dicts, and there are none without a trade
has_column(ledger, col) == ledger # <<>>

\* the positional arguments generate_results passes to calculate_max_drawdown
max_drawdown_args(pnl_series, cap) == <<pnl_series>>

\* calculate_max_drawdown(pnl_series, initial_capital) has no default value
MaxDrawdownArity == 2

Raised(e) == [error |-> e, result |-> <<>>]
Produced(r) == [error |-> "", result |-> <<r>>]
NoReport == [error |-> "not called", result |-> <<>>]

\* Series.mean() of whole numbers, as a float
int_mean(total, n) == Rnd(total * Scale, n)

wins_of(ledger) == Len(SelectSeq(ledger, LAMBDA t : t.Win))

RECURSIVE days_held_sum(_)
days_held_sum(ledger) ==
    IF ledger = <<>> THEN 0 ELSE Head(ledger).Days_held + days_held_sum(Tail(ledger))

generate_results(t1, t2, ledger, cap, date_index, hedge_ratio, final_zscore) ==
    LET empty == ledger = <<>>
        pnl == pnl_column(ledger)
        n == Len(ledger)
        args == max_drawdown_args(pnl, cap)
    IN  IF ~empty /\ Len(args) # MaxDrawdownArity THEN Raised("TypeError")
        ELSE IF ~has_column(ledger, "Win") THEN Raised("KeyError")
        ELSE LET dd == IF empty THEN <<0, 0>> ELSE calculate_max_drawdown(args[1], args[2])
                 annualized_return ==
                     IF empty THEN PyInt(0)
                     ELSE Float(calculate_annualized_return(series_sum(pnl), cap, date_index))
             IN  Produced(
                 [Ticker1 |-> Str(t1),
                  Ticker2 |-> Str(t2),
                  Total_Trades |-> PyInt(n),
                  Winning_Trades |-> NpInt(wins_of(ledger)),
                  Losing_Trades |-> NpInt(n - wins_of(ledger)),
                  Average_trade_duration |->
                      IF empty THEN PyInt(0) ELSE Float(<<int_mean(days_held_sum(ledger), n)>>),
                  Win_Rate |->
                      IF n > 0 THEN Float(<<fmul(int_mean(wins_of(ledger), n), Hundred)>>)
                      ELSE PyInt(0),
                  Profit_factor |->
                      IF empty THEN PyInt(0) ELSE Float(calculate_profit_factor(pnl)),
                  Total_PnL |-> Float(<<series_sum(pnl)>>),
                  CAGR |->
                      IF empty THEN PyInt(0)
                      ELSE Float(calculate_cagr(series_sum(pnl), cap, date_index)),
                  Annualized_Return |-> annualized_return,
                  Average_PnL_per_Trade |->
                      IF empty THEN PyInt(0) ELSE Float(<<fdiv(series_sum(pnl), n * Scale)>>),
                  Max_Drawdown |-> IF empty THEN PyInt(0) ELSE Float(<<dd[1]>>),
                  Max_Drawdown_pct |-> IF empty THEN PyInt(0) ELSE Float(<<dd[2]>>),
                  Hedge_Ratio |-> Float(<<hedge_ratio>>),
                  Final_ZScore |-> Float(final_zscore),
                  Sharpe_ratio |->
                      IF empty THEN PyInt(0) ELSE Float(calculate_sharpe_ratio(pnl)),
                  Sortino_ratio |->
                      IF empty THEN PyInt(0) ELSE Float(calculate_sortino_ratio(pnl)),
                  Calmar_ratio |->
                      IF empty THEN PyInt(0)
                      ELSE Float(calculate_calmar_ratio(annualized_return.v, dd[2])),
                  Volatility |->
                      IF empty THEN PyInt(0) ELSE Float(calculate_volatility(pnl))])

----------------------------------------------------------------------------
(* BacktestUtils.calculate_average_metrics.  A result dict is a function   *)
(* from its keys to typed values.                                          *)

\* changed: no key is left out of the averages
excluded_nothing == {}

excluded == {"Ticker1", "Ticker2"}

\* isinstance(x, (int, float)): np.float64 derives from float, np.int64
\* does not derive from int
is_number(x) == x.t \in {"int", "float"}

\* result[key] != 0 and result[key] is not None and not math.isinf(result[key])
is_valid(x) == x.v # <<0>> /\ x.t # "NoneType" /\ x.v # Inf /\ x.v # NegInf

\* a number as a float
as_float(x) == IF x.t = "float" THEN x.v[1] ELSE x.v[1] * Scale

\* sum(valid_values) / len(valid_values): a NaN among the values makes the
\* sum NaN; whole numbers are summed exactly and divided once
average(valid_values) ==
    IF \E k \in 1..Len(valid_values) : isna(valid_values[k].v) THEN Float(NaN)
    ELSE LET floats == [k \in 1..Len(valid_values) |-> as_float(valid_values[k])]
             whole == \A k \in 1..Len(valid_values) : valid_values[k].t # "float"
         IN  IF whole THEN Float(<<Rnd(SumProd(floats, Ones(Len(floats)), Len(floats)),
                                       Len(floats))>>)
             ELSE Float(<<fdiv(fsum(floats), Len(floats) * Scale)>>)

calculate_average_metrics(batch) ==
    IF batch = <<>> THEN <<>>
    ELSE [key \in (DOMAIN batch[1]) \ excluded |->
            IF is_number(batch[1][key])
            THEN LET valid_values == SelectSeq([k \in 1..Len(batch) |-> batch[k][key]], is_valid)
                 IN  IF Len(valid_values) > 0 THEN average(valid_values) ELSE PyInt(0)
            ELSE batch[1][key]]

\* result dicts, by the fields whose type or value the averaging treats
\* differently: a pair with trades, one whose only trade won, one without
\* a trade, one without a winning trade
ResultRows ==
    {[Ticker1 |-> Str("A"), Ticker2 |-> Str("B"), Total_Trades |-> PyInt(3),
      Winning_Trades |-> NpInt(2), Profit_factor |-> Float(<<6>>),
      Hedge_Ratio |-> Float(<<5>>), Volatility |-> Float(<<8>>)],
     [Ticker1 |-> Str("A"), Ticker2 |-> Str("C"), Total_Trades |-> PyInt(1),
      Winning_Trades |-> NpInt(1), Profit_factor |-> Float(Inf),
      Hedge_Ratio |-> PyNone, Volatility |-> Float(NaN)],
     [Ticker1 |-> Str("B"), Ticker2 |-> Str("C"), Total_Trades |-> PyInt(0),
      Winning_Trades |-> NpInt(0), Profit_factor |-> PyInt(0),
      Hedge_Ratio |-> Float(<<-3>>), Volatility |-> PyInt(0)],
     [Ticker1 |-> Str("C"), Ticker2 |-> Str("A"), Total_Trades |-> PyInt(2),
      Winning_Trades |-> NpInt(0), Profit_factor |-> Float(<<0>>),
      Hedge_Ratio |-> Float(<<2>>), Volatility |-> Float(<<4>>)]}

MaxPairs == 3

----------------------------------------------------------------------------
(* One call of a metric function on arguments of its own                   *)

MaxTrades == 3

MetricCapitals == {0, 4 * Scale, 21, 34}
PnLVals == {NaN, <<-3 * Scale>>, <<-Scale>>, <<-1>>, <<0>>, <<2 * Scale>>}

RECURSIVE SeqsUpTo(_, _)
SeqsUpTo(S, n) ==
    IF n = 0 THEN {<<>>}
    ELSE SeqsUpTo(S, n - 1) \cup {Append(s, x) : s \in {t \in SeqsUpTo(S, n - 1) : Len(t) = n - 1}, x \in S}

PnLSeries == SeqsUpTo(PnLVals, MaxTrades)

\* a DatetimeIndex, in days: empty, one day, four years
DateIndexes == {<<>>, <<0>>, <<0, 731, 1461>>}

NoCalc == [kind |-> "", fn |-> "", pnl_series |-> <<>>, initial_capital |-> 0,
           date_index |-> <<>>, results |-> <<>>, value |-> <<>>]

Batches == SeqsUpTo(ResultRows, MaxPairs)

Called(fn, value) == [calc EXCEPT !.fn = fn, !.value = value]

----------------------------------------------------------------------------
(* The statistical tests as a table.  coint, adfuller and the diagnostics  *)
(* of the spread are functions of the price columns: on one price matrix   *)
(* a pair of tickers has one row of outcomes.                              *)

\* where the body of the loop raises: 0 nowhere, 1 in the first coint call,
\* 2 in the second
FailStages == 0..2

TestRow(n, p1, p2, dg, stage) ==
    [n_overlap |-> n, pvalue1 |-> p1, pvalue2 |-> p2, dg |-> dg, failed_at |-> stage]

\* the body raises only once it has reached the coint calls
fails(t) == t.failed_at # 0 /\ ~(t.n_overlap < MinOverlap)

\* try: ... results.append(result)  except Exception as e: continue
screen_or_skip(dat, pair, t) ==
    IF fails(t) THEN <<>>
    ELSE screen_pair(dat, pair[1], pair[2], t.n_overlap, t.pvalue1, t.pvalue2, t.dg)

\* tested counts the coint calls that returned
tested_then(n, t) ==
    IF fails(t) THEN n + (t.failed_at - 1) ELSE tested_after(n, t.n_overlap)

\* the handler of the loop prints nothing: except Exception as e: continue
scan_log(lg, t) == lg

AllPairs == {<<"A", "B">>, <<"A", "C">>, <<"B", "C">>}

TestRows ==
    LET ok == [adf |-> 10, half_life |-> <<20>>, hurst |-> 10, zero_crossings |-> 20,
               reversion_rate |-> <<80>>, current_zscore |-> <<0>>]
    IN  {TestRow(100, 5, 8, ok, 0), TestRow(100, 8, 5, ok, 0), TestRow(99, 5, 8, ok, 0),
         TestRow(100, 5, 8, ok, 1), TestRow(100, 60, 60, ok, 0)}

NoTests == [p \in AllPairs |-> TestRow(0, 0, 0, <<>>, 0)]
TestTables == [AllPairs -> TestRows]

\* the loop of find_cointegrated_pairs over pairs_to_test
RECURSIVE screen_all(_, _, _)
screen_all(dat, pairs, tbl) ==
    IF pairs = <<>> THEN <<>>
    ELSE screen_or_skip(dat, Head(pairs), tbl[Head(pairs)]) \o screen_all(dat, Tail(pairs), tbl)

\* the list find_cointegrated_pairs returns for a price matrix
find_cointegrated_pairs(dat, tbl) ==
    IF is_empty(dat) \/ Len(columns(dat)) < 2 THEN <<>>
    ELSE screen_all(dat, correlated_pairs(dat), tbl)

----------------------------------------------------------------------------
(* CommonUtils.fetch_data and PairsScanner.run_scanner.  What yf.download  *)
(* gives is an input: it raises, or it is a frame, described by the number *)
(* of prices each ticker has, the number of rows left after ffill().dropna() *)
(* and the price matrix those rows make.  <<>> is None, <<f>> the frame f. *)

MinHistory == 126
MinRequiredPoints == 132

EmptyFrame == [t \in {} |-> <<>>]

Raw(raises, empty, points, rows, frame) ==
    [raises |-> raises, empty |-> empty, points |-> points, rows |-> rows, frame |-> frame]

\* except Exception as e: print(...) ends the function: it returns None
fetch_data(raw) ==
    IF raw.raises THEN None
    ELSE IF raw.empty THEN <<EmptyFrame>>
    ELSE LET kept == {t \in DOMAIN raw.frame : raw.points[t] > MinHistory}
         IN  IF kept = {} THEN <<EmptyFrame>>
             ELSE IF raw.rows < MinRequiredPoints THEN <<EmptyFrame>>
             ELSE <<[t \in kept |-> raw.frame[t]]>>

MaxSectors == 3

SectorFrames ==
    {[A |-> Series("ramp", MaxBars), B |-> Series(kb, MaxBars)] : kb \in {"ramp", "step", "zig"}}

RawDownloads ==
    {Raw(TRUE, FALSE, [A |-> 0, B |-> 0], 0, NoData),
     Raw(FALSE, TRUE, [A |-> 0, B |-> 0], 0, NoData)} \cup
    {Raw(FALSE, FALSE, [A |-> pa, B |-> pb], r, f) :
        pa \in {126, 127}, pb \in {126, 127}, r \in {131, 132}, f \in SectorFrames}

NoSweep == [idx |-> 0, raw |-> Raw(FALSE, TRUE, [A |-> 0, B |-> 0], 0, NoData), all_results |-> <<>>]
NoBatch == [idx |-> 0, results |-> <<>>]

Fresh ==
    /\ log = <<>>
    /\ backtests = NoBatch
    /\ sweep = NoSweep
    /\ tests = NoTests
    /\ first_run = None

----------------------------------------------------------------------------
Init ==
    /\ pc = "idle"
    /\ caller = "none"
    /\ df = NoFrame
    /\ zscore_window = 0
    /\ entry_threshold = 0
    /\ capital = 0
    /\ i = 0
    /\ cur = NoRow
    /\ position = None
    /\ trades = <<>>
    /\ entries = 0
    /\ data = NoData
    /\ results = <<>>
    /\ top_pairs = <<>>
    /\ ticker1 = ""
    /\ ticker2 = ""
    /\ stats = NoStats
    /\ pairs_to_test = <<>>
    /\ pair_idx = 0
    /\ tested = 0
    /\ cur_pair = NoPair
    /\ report = NoReport
    /\ calc = NoCalc
    /\ Fresh

\* a caller hands backtest_pair a frame that carries every column it reads
CallDirect ==
    /\ pc = "idle"
    /\ \E n \in DfLens, w \in Windows, t \in Thresholds, c \in Capitals, h \in HedgeVals :
         /\ df' = FreeFrame(n, h)
         /\ zscore_window' = w
         /\ entry_threshold' = t
         /\ capital' = c
         /\ i' = loop_start(w)
    /\ caller' = "direct"
    /\ pc' = "loop"
    /\ position' = None
    /\ trades' = <<>>
    /\ UNCHANGED <<cur, entries, pipe>>

InLoop == pc = "loop" /\ i < df_len

\* if pd.isna(zscore): continue
BarNaN ==
    /\ InLoop
    /\ NaN \in ZChoices(i)
    /\ cur' = Row(i, NaN, <<>>, <<>>, <<>>)
    /\ position' = position_after_nan(position)
    /\ i' = i + 1
    /\ UNCHANGED <<pc, caller, df, zscore_window, entry_threshold, capital, trades, entries, pipe>>

\* position is None and neither comparison with the threshold holds
BarNoSignal ==
    /\ InLoop
    /\ is_flat(position)
    /\ \E zz \in ZChoices(i) :
         /\ ~isna(zz)
         /\ ~long_signal(zz[1], entry_threshold)
         /\ ~short_signal(zz[1], entry_threshold)
         /\ cur' = Row(i, zz, <<>>, <<>>, <<>>)
    /\ i' = i + 1
    /\ UNCHANGED <<pc, caller, df, zscore_window, entry_threshold, capital,
                   position, trades, entries, pipe>>

\* position is None, a threshold comparison holds and is_good_entry runs
BarEntry ==
    /\ InLoop
    /\ is_flat(position)
    /\ df.filter_cols
    /\ \E zz \in ZChoices(i), flt \in FilterChoices(i) :
         /\ ~isna(zz)
         /\ long_signal(zz[1], entry_threshold) \/ short_signal(zz[1], entry_threshold)
         /\ LET good == is_good_entry(flt[1], flt[2], flt[3])
                type == entry_type(zz[1], entry_threshold, good)
            IN  IF type = ""
                THEN /\ cur' = Row(i, zz, <<>>, <<>>, flt)
                     /\ UNCHANGED <<position, entries>>
                ELSE \E px \in PriceChoices(i), hr \in HedgeChoices(i) :
                       /\ cur' = Row(i, zz, px, <<hr>>, flt)
                       /\ position' = <<new_position(type, IndexDate(i), zz[1], px[1], px[2], hr)>>
                       /\ entries' = entries + 1
    /\ i' = i + 1
    /\ UNCHANGED <<pc, caller, df, zscore_window, entry_threshold, capital, trades, pipe>>

\* df['Half_Life'] on a frame without that column: KeyError leaves backtest_pair
BarKeyError ==
    /\ InLoop
    /\ is_flat(position)
    /\ ~df.filter_cols
    /\ \E zz \in ZChoices(i) :
         /\ ~isna(zz)
         /\ long_signal(zz[1], entry_threshold) \/ short_signal(zz[1], entry_threshold)
         /\ cur' = Row(i, zz, <<>>, <<>>, <<>>)
    /\ pc' = "raised"
    /\ UNCHANGED <<caller, df, zscore_window, entry_threshold, capital, i,
                   position, trades, entries, pipe>>

\* position is not None: the exit chain, and the trade when it signals
BarOpen ==
    /\ InLoop
    /\ ~is_flat(position)
    /\ \E zz \in ZChoices(i) :
         /\ ~isna(zz)
         /\ LET p == position[1]
                reason == exit_reason(p.type, p.entry_zscore, zz[1])
            IN  IF reason = ""
                THEN /\ cur' = Row(i, zz, <<>>, <<>>, <<>>)
                     /\ UNCHANGED <<position, trades>>
                ELSE \E px \in PriceChoices(i) :
                       /\ cur' = Row(i, zz, px, <<>>, <<>>)
                       /\ trades' = Append(trades, make_trade(p, IndexDate(i), zz[1],
                                                              px[1], px[2], capital, reason))
                       /\ position' = position_after_exit(p)
    /\ i' = i + 1
    /\ UNCHANGED <<pc, caller, df, zscore_window, entry_threshold, capital, entries, pipe>>

\* the loop is over: return pd.DataFrame(trades)
Return ==
    /\ pc = "loop"
    /\ i >= df_len
    /\ trades' = returned_ledger(trades, position)
    /\ pc' = "returned"
    /\ UNCHANGED <<caller, df, zscore_window, entry_threshold, capital, i, cur,
                   position, entries, pipe>>

\* generate_results(df, trades_df) on the ledger backtest_pair returned
GenerateResults ==
    /\ pc = "returned"
    /\ \E final_zscore \in ZChoices(df_len - 1) :
         report' = generate_results(ticker1, ticker2, trades, capital, frame_index,
                                    FrameHedge, final_zscore)
    /\ pc' = IF report'.error = "" THEN "reported" ELSE "raised"
    /\ UNCHANGED <<caller, df, zscore_window, entry_threshold, capital, i, cur,
                   position, trades, entries, data, results, top_pairs, ticker1,
                   ticker2, stats, scan, calc, log, backtests, sweep, tests, first_run>>

\* changed: the list of the previous call is kept and extended
new_results_kept(previous) == previous

\* results: list[dict] = [] before the loop
new_results(previous) == <<>>

\* find_cointegrated_pairs up to its loop, on the matrix dat: the two early
\* returns of an empty list, or the list of correlated pairs the loop will take
EnterScan(dat) ==
    /\ data' = dat
    /\ IF is_empty(dat) \/ Len(columns(dat)) < 2
       THEN pairs_to_test' = <<>> /\ pc' = "scanned"
       ELSE /\ pairs_to_test' = correlated_pairs(dat)
            /\ pc' = IF pairs_to_test' = <<>> THEN "scanned" ELSE "scan"
    /\ results' = new_results(results)
    /\ tested' = 0
    /\ pair_idx' = 0

FindCointegratedPairs ==
    /\ pc = "idle"
    /\ \E dat \in DataSets \cup DegenerateData : EnterScan(dat)
    /\ UNCHANGED <<caller, df, zscore_window, entry_threshold, capital, i, cur,
                   position, trades, entries, top_pairs, ticker1, ticker2, stats,
                   cur_pair, aux>>

\* one iteration of the loop over pairs_to_test; the overlap of the two
\* columns, both coint p-values, the diagnostics of the spread and the
\* place where the body raises are the row of the pair
ScreenPairIn(Rows) ==
    /\ pc = "scan"
    /\ pair_idx < Len(pairs_to_test)
    /\ \E t \in Rows :
         LET pair == pairs_to_test[pair_idx + 1]
             appended == screen_or_skip(data, pair, t)
         IN  /\ results' = results \o appended
             /\ tested' = tested_then(tested, t)
             /\ log' = scan_log(log, t)
             /\ cur_pair' = [pair |-> pair, n_overlap |-> t.n_overlap, pvalue1 |-> t.pvalue1,
                             pvalue2 |-> t.pvalue2, appended |-> appended, failed |-> fails(t)]
    /\ pair_idx' = pair_idx + 1
    /\ UNCHANGED <<pc, caller, df, zscore_window, entry_threshold, capital, i, cur,
                   position, trades, entries, data, top_pairs, ticker1, ticker2, stats,
                   pairs_to_test, report, calc, backtests, sweep, tests, first_run>>

\* the rows a pair may have: every overlap, pair of p-values and diagnostics,
\* and a failure in either coint call
ScanRows(Ps, Ds) ==
    {TestRow(n, p1, p2, dg, 0) : n \in Overlaps, p1 \in Ps, p2 \in Ps, dg \in Ds} \cup
    {TestRow(MinOverlap, 0, 0, CHOOSE dg \in Ds : TRUE, stage) : stage \in FailStages \ {0}}

ScreenPairOn(Ps, Ds) == ScreenPairIn(ScanRows(Ps, Ds))

ScreenPair == ScreenPairOn(PValues, DiagRows)

ScreenPairWide == ScreenPairOn(WidePValues, WideDiagRows)

\* the iteration when the tests of the matrix are the table tests
ScreenPairTabled ==
    /\ pc = "scan"
    /\ pair_idx < Len(pairs_to_test)
    /\ ScreenPairIn({tests[pairs_to_test[pair_idx + 1]]})

\* the loop is over: return results
ScanReturn ==
    /\ pc = "scan"
    /\ pair_idx = Len(pairs_to_test)
    /\ pc' = "scanned"
    /\ UNCHANGED <<caller, df, zscore_window, entry_threshold, capital, i, cur,
                   position, trades, entries, data, results, top_pairs, ticker1, ticker2,
                   stats, pairs_to_test, pair_idx, tested, cur_pair, aux>>

\* find_cointegrated_pairs is called a second time on the same matrix
CallAgain ==
    /\ pc = "scanned"
    /\ first_run = None
    /\ first_run' = <<results>>
    /\ EnterScan(data)
    /\ UNCHANGED <<caller, df, zscore_window, entry_threshold, capital, i, cur,
                   position, trades, entries, top_pairs, ticker1, ticker2, stats,
                   cur_pair, report, calc, log, backtests, sweep, tests>>

\* run_scanner, one sector: fetch_data, the guard on the frame and
\* find_cointegrated_pairs; data.shape on None raises AttributeError
ScanSector ==
    /\ pc = "sectors"
    /\ sweep.idx < MaxSectors
    /\ \E raw \in RawDownloads, row \in TestRows :
         LET fetched == fetch_data(raw)
             tbl == [p \in AllPairs |-> row]
         IN  /\ tests' = tbl
             /\ IF fetched = None
                THEN /\ sweep' = [sweep EXCEPT !.idx = @ + 1, !.raw = raw]
                     /\ pc' = "raised"
                ELSE /\ sweep' = [idx |-> sweep.idx + 1, raw |-> raw,
                                  all_results |->
                                      IF is_empty(fetched[1]) \/ Len(columns(fetched[1])) < 2
                                      THEN sweep.all_results
                                      ELSE sweep.all_results \o
                                           find_cointegrated_pairs(fetched[1], tbl)]
                     /\ pc' = pc
    /\ UNCHANGED <<caller, df, zscore_window, entry_threshold, capital, i, cur,
                   position, trades, entries, data, results, top_pairs, ticker1, ticker2,
                   stats, scan, report, calc, log, backtests, first_run>>

\* every sector is taken: return all_results
ScannerReturn ==
    /\ pc = "sectors"
    /\ sweep.idx = MaxSectors
    /\ pc' = "swept"
    /\ UNCHANGED <<caller, df, zscore_window, entry_threshold, capital, i, cur,
                   position, trades, entries, pipe>>

\* get_top_pairs reads the saved results back and swaps the legs of the
\* rows whose Optimal_Direction is 2
GetTopPairs ==
    /\ pc = "scanned"
    /\ top_pairs' = [k \in 1..Len(results) |-> load_pair(results[k])]
    /\ pc' = "loaded"
    /\ UNCHANGED <<caller, df, zscore_window, entry_threshold, capital, i, cur,
                   position, trades, entries, data, results, ticker1, ticker2, stats,
                   scan, aux>>

\* run_backtests builds SinglePairBacktest(Stock_1, Stock_2); run_test
\* regresses df[ticker2] on df[ticker1], fills the frame and calls backtest_pair
RunTest ==
    /\ pc = "loaded"
    /\ backtests.idx < Len(top_pairs)
    /\ \E w \in RunWindows, t \in Thresholds, c \in Capitals :
         LET row == top_pairs[backtests.idx + 1]
             st  == calculate_spread_stats(data[row.Stock_1], data[row.Stock_2], w)
         IN  /\ ticker1' = row.Stock_1
             /\ ticker2' = row.Stock_2
             /\ stats' = st
             /\ df' = RunFrame(st, w)
             /\ zscore_window' = w
             /\ entry_threshold' = t
             /\ capital' = c
             /\ i' = loop_start(w)
    /\ caller' = "run_test"
    /\ pc' = "loop"
    /\ position' = None
    /\ trades' = <<>>
    /\ UNCHANGED <<cur, entries, data, results, top_pairs, scan, aux>>

\* run_backtests, the end of one iteration: the result of run_test is
\* appended, or its exception is caught and printed, and the loop goes on
BacktestDone ==
    /\ pc \in {"raised", "reported"}
    /\ caller = "run_test"
    /\ IF pc = "raised"
       THEN /\ log' = Append(log, "Error backtesting")
            /\ backtests' = [backtests EXCEPT !.idx = @ + 1]
       ELSE /\ log' = log
            /\ backtests' = [idx |-> backtests.idx + 1,
                             results |-> Append(backtests.results, report.result[1])]
    /\ pc' = "loaded"
    /\ UNCHANGED <<caller, df, zscore_window, entry_threshold, capital, i, cur,
                   position, trades, entries, data, results, top_pairs, ticker1, ticker2,
                   stats, scan, report, calc, sweep, tests, first_run>>

\* every row is taken: return results
BacktestsReturn ==
    /\ pc = "loaded"
    /\ backtests.idx = Len(top_pairs)
    /\ pc' = "backtested"
    /\ UNCHANGED <<caller, df, zscore_window, entry_threshold, capital, i, cur,
                   position, trades, entries, pipe>>

Next ==
    \/ CallDirect
    \/ FindCointegratedPairs
    \/ ScreenPair
    \/ ScanReturn
    \/ GetTopPairs
    \/ RunTest
    \/ BarNaN
    \/ BarNoSignal
    \/ BarEntry
    \/ BarKeyError
    \/ BarOpen
    \/ Return
    \/ GenerateResults
    \/ BacktestDone
    \/ BacktestsReturn

Spec == Init /\ [][Next]_vars

----------------------------------------------------------------------------
(* The trade arithmetic on its own: backtest_pair has just been called on  *)
(* a frame that holds one LONG and one SHORT round trip over the same      *)
(* prices.                                                                 *)

InitTrade ==
    /\ pc = "loop"
    /\ caller = "direct"
    /\ \E e \in WidePriceRows, x \in WidePriceRows, h \in WideHedges, t \in Thresholds :
         /\ df = TradeFrame(e, x, h, t)
         /\ entry_threshold = t
    /\ zscore_window = 1
    /\ capital \in WideCapitals
    /\ i = 1
    /\ cur = NoRow
    /\ position = None
    /\ trades = <<>>
    /\ entries = 0
    /\ data = NoData
    /\ results = <<>>
    /\ top_pairs = <<>>
    /\ ticker1 = ""
    /\ ticker2 = ""
    /\ stats = NoStats
    /\ pairs_to_test = <<>>
    /\ pair_idx = 0
    /\ tested = 0
    /\ cur_pair = NoPair
    /\ report = NoReport
    /\ calc = NoCalc
    /\ Fresh

NextTrade ==
    \/ BarEntry
    \/ BarOpen
    \/ Return
    \/ GenerateResults

SpecTrade == InitTrade /\ [][NextTrade]_vars

----------------------------------------------------------------------------
(* The screening loop on its own: find_cointegrated_pairs has just built   *)
(* pairs_to_test from a three-column price matrix.                         *)

InitScan ==
    /\ pc = "scan"
    /\ caller = "none"
    /\ df = NoFrame
    /\ zscore_window = 0
    /\ entry_threshold = 0
    /\ capital = 0
    /\ i = 0
    /\ cur = NoRow
    /\ position = None
    /\ trades = <<>>
    /\ entries = 0
    /\ data \in WideDataSets
    /\ results = <<>>
    /\ top_pairs = <<>>
    /\ ticker1 = ""
    /\ ticker2 = ""
    /\ stats = NoStats
    /\ pairs_to_test = correlated_pairs(data)
    /\ pair_idx = 0
    /\ tested = 0
    /\ cur_pair = NoPair
    /\ report = NoReport
    /\ calc = NoCalc
    /\ Fresh

NextScan ==
    \/ ScreenPairWide
    \/ ScanReturn

SpecScan == InitScan /\ [][NextScan]_vars

----------------------------------------------------------------------------
(* run_scanner on its own: it has just been called on MaxSectors sectors.  *)

InitSectors ==
    /\ pc = "sectors"
    /\ caller = "none"
    /\ df = NoFrame
    /\ zscore_window = 0
    /\ entry_threshold = 0
    /\ capital = 0
    /\ i = 0
    /\ cur = NoRow
    /\ position = None
    /\ trades = <<>>
    /\ entries = 0
    /\ data = NoData
    /\ results = <<>>
    /\ top_pairs = <<>>
    /\ ticker1 = ""
    /\ ticker2 = ""
    /\ stats = NoStats
    /\ pairs_to_test = <<>>
    /\ pair_idx = 0
    /\ tested = 0
    /\ cur_pair = NoPair
    /\ report = NoReport
    /\ calc = NoCalc
    /\ Fresh

NextSectors ==
    \/ ScanSector
    \/ ScannerReturn

SpecSectors == InitSectors /\ [][NextSectors]_vars

----------------------------------------------------------------------------
(* find_cointegrated_pairs called twice on one frozen price matrix, whose  *)
(* statistical tests are one table.                                        *)

InitRepeat ==
    /\ pc = "scan"
    /\ caller = "none"
    /\ df = NoFrame
    /\ zscore_window = 0
    /\ entry_threshold = 0
    /\ capital = 0
    /\ i = 0
    /\ cur = NoRow
    /\ position = None
    /\ trades = <<>>
    /\ entries = 0
    /\ data \in WideDataSets
    /\ results = <<>>
    /\ top_pairs = <<>>
    /\ ticker1 = ""
    /\ ticker2 = ""
    /\ stats = NoStats
    /\ pairs_to_test = correlated_pairs(data)
    /\ pair_idx = 0
    /\ tested = 0
    /\ cur_pair = NoPair
    /\ report = NoReport
    /\ calc = NoCalc
    /\ log = <<>>
    /\ backtests = NoBatch
    /\ sweep = NoSweep
    /\ tests \in TestTables
    /\ first_run = None

NextRepeat ==
    \/ ScreenPairTabled
    \/ ScanReturn
    \/ CallAgain

SpecRepeat == InitRepeat /\ [][NextRepeat]_vars

----------------------------------------------------------------------------
(* The metric functions on their own: each is called once, on a PnL        *)
(* series, an initial capital and a date index, or on a batch of results.  *)

InitMetrics ==
    /\ pc = "idle"
    /\ caller = "none"
    /\ df = NoFrame
    /\ zscore_window = 0
    /\ entry_threshold = 0
    /\ capital = 0
    /\ i = 0
    /\ cur = NoRow
    /\ position = None
    /\ trades = <<>>
    /\ entries = 0
    /\ data = NoData
    /\ results = <<>>
    /\ top_pairs = <<>>
    /\ ticker1 = ""
    /\ ticker2 = ""
    /\ stats = NoStats
    /\ pairs_to_test = <<>>
    /\ pair_idx = 0
    /\ tested = 0
    /\ cur_pair = NoPair
    /\ report = NoReport
    /\ \/ \E s \in PnLSeries, c \in MetricCapitals, d \in DateIndexes :
            calc = [NoCalc EXCEPT !.kind = "series", !.pnl_series = s,
                                  !.initial_capital = c, !.date_index = d]
       \/ \E b \in Batches : calc = [NoCalc EXCEPT !.kind = "batch", !.results = b]
    /\ Fresh

MetricInputs == calc.kind = "series" /\ calc.fn = ""

Rest == <<pc, caller, df, zscore_window, entry_threshold, capital, i, cur, position,
          trades, entries, data, results, top_pairs, ticker1, ticker2, stats, scan, report,
          log, backtests, sweep, tests, first_run>>

CalculateMaxDrawdown ==
    /\ MetricInputs
    /\ calc' = Called("calculate_max_drawdown",
                      calculate_max_drawdown(calc.pnl_series, calc.initial_capital))
    /\ UNCHANGED Rest

CalculateProfitFactor ==
    /\ MetricInputs
    /\ calc' = Called("calculate_profit_factor", calculate_profit_factor(calc.pnl_series))
    /\ UNCHANGED Rest

CalculateCagr ==
    /\ MetricInputs
    /\ calc' = Called("calculate_cagr",
                      calculate_cagr(series_sum(calc.pnl_series), calc.initial_capital,
                                     calc.date_index))
    /\ UNCHANGED Rest

CalculateAnnualizedReturn ==
    /\ MetricInputs
    /\ calc' = Called("calculate_annualized_return",
                      calculate_annualized_return(series_sum(calc.pnl_series),
                                                  calc.initial_capital, calc.date_index))
    /\ UNCHANGED Rest

CalculateAverageMetrics ==
    /\ calc.kind = "batch" /\ calc.fn = ""
    /\ calc' = Called("calculate_average_metrics", calculate_average_metrics(calc.results))
    /\ UNCHANGED Rest

NextMetrics ==
    \/ CalculateAverageMetrics
    \/ CalculateMaxDrawdown
    \/ CalculateProfitFactor
    \/ CalculateCagr
    \/ CalculateAnnualizedReturn

SpecMetrics == InitMetrics /\ [][NextMetrics]_vars

----------------------------------------------------------------------------
(* calculate_spread_stats on its own: it is called once on two price       *)
(* columns and a window, or its half-life is computed from one fit.        *)

InitStats ==
    /\ pc = "idle"
    /\ caller = "none"
    /\ df = NoFrame
    /\ zscore_window = 0
    /\ entry_threshold = 0
    /\ capital = 0
    /\ i = 0
    /\ cur = NoRow
    /\ position = None
    /\ trades = <<>>
    /\ entries = 0
    /\ data = NoData
    /\ results = <<>>
    /\ top_pairs = <<>>
    /\ ticker1 = ""
    /\ ticker2 = ""
    /\ stats = NoStats
    /\ pairs_to_test = <<>>
    /\ pair_idx = 0
    /\ tested = 0
    /\ cur_pair = NoPair
    /\ report = NoReport
    /\ \/ \E x \in StatsSeries, y \in StatsSeries, w \in StatsWindows :
            calc = [kind |-> "stats", fn |-> "", stock_x |-> x, stock_y |-> y,
                    zscore_window |-> w, value |-> <<>>]
       \/ \E n \in FitPoints, sg \in {-1, 0, 1}, q \in FitQuotients :
            calc = [kind |-> "fit", fn |-> "", n_points |-> n, theta_sign |-> sg,
                    quotient |-> q, value |-> <<>>]
    /\ Fresh

CalculateSpreadStats ==
    /\ calc.kind = "stats" /\ calc.fn = ""
    /\ calc' = Called("calculate_spread_stats",
                      spread_stats(calc.stock_x, calc.stock_y, calc.zscore_window))
    /\ UNCHANGED Rest

\* the half-life of the spread as the stats report it
CalculateHalfLife ==
    /\ calc.kind = "fit" /\ calc.fn = ""
    /\ calc' = Called("calculate_half_life",
                      reported_halflife(calculate_half_life(calc.n_points, calc.theta_sign,
                                                            calc.quotient)))
    /\ UNCHANGED Rest

NextStats ==
    \/ CalculateSpreadStats
    \/ CalculateHalfLife

SpecStats == InitStats /\ [][NextStats]_vars

----------------------------------------------------------------------------
(* The reversion rate on its own: the loop of calculate_spread_stats over  *)
(* a rolling z-score series.                                               *)

InitReversion ==
    /\ pc = "idle"
    /\ caller = "none"
    /\ df = NoFrame
    /\ zscore_window = 0
    /\ entry_threshold = 0
    /\ capital = 0
    /\ i = 0
    /\ cur = NoRow
    /\ position = None
    /\ trades = <<>>
    /\ entries = 0
    /\ data = NoData
    /\ results = <<>>
    /\ top_pairs = <<>>
    /\ ticker1 = ""
    /\ ticker2 = ""
    /\ stats = NoStats
    /\ pairs_to_test = <<>>
    /\ pair_idx = 0
    /\ tested = 0
    /\ cur_pair = NoPair
    /\ report = NoReport
    /\ \E z \in ZSeriesSet, w \in Windows :
         calc = [kind |-> "zscores", fn |-> "", rolling_zscore |-> z,
                 zscore_window |-> w, zscore_entry_threshold |-> Two, value |-> <<>>]
    /\ Fresh

ReversionRate ==
    /\ calc.kind = "zscores" /\ calc.fn = ""
    /\ calc' = Called("reversion_rate",
                      reversion_rate(calc.rolling_zscore, calc.zscore_window,
                                     calc.zscore_entry_threshold))
    /\ UNCHANGED Rest

NextReversion == ReversionRate

SpecReversion == InitReversion /\ [][NextReversion]_vars

----------------------------------------------------------------------------
(* Properties                                                              *)

\* this step is one iteration of the loop: it has read row i
BarStep == pc = "loop" /\ i < df_len /\ cur'.index = i

Last(seq) == seq[Len(seq)]

\* C1: in every ledger each trade exits strictly after it enters and enters
\* strictly after the trade before it has exited
C1_NonOverlapping ==
    \A k \in 1..Len(trades) :
        /\ trades[k].Entry_Date < trades[k].Exit_Date
        /\ k > 1 => trades[k - 1].Exit_Date < trades[k].Entry_Date

C1_Witness == pc = "returned" /\ Len(trades) >= 2

\* C2: at most one position is open: entries minus trades is 0 or 1, an
\* entry is only taken while flat, and a bar that finds a position open
\* keeps it or closes it
C2_OneOpenPosition ==
    /\ [](/\ entries - Len(trades) \in {0, 1}
          /\ Len(position) <= 1
          /\ position = None <=> entries = Len(trades))
    /\ [][/\ entries' # entries => position = None /\ position' # None /\ entries' = entries + 1
          /\ position # None => position' = position \/ position' = None]_vars

C2_Witness ==
    /\ position # None /\ Len(trades) >= 1
    /\ cur.index > position[1].entry_date
    /\ ~isna(cur.zscore)

\* the filter cells read on this bar pass every test of is_good_entry
FilterAccepts(flt) ==
    /\ Len(flt) = 3
    /\ ~isna(flt[1]) /\ ~isna(flt[2]) /\ ~isna(flt[3])
    /\ HalfLifeMin <= flt[1][1] /\ flt[1][1] <= HalfLifeMax
    /\ flt[2][1] < HurstMax
    /\ flt[3][1] < AdfPMax

\* this step opens a position of the given side that records row i
Opens(type) ==
    /\ Len(cur'.prices) = 2 /\ Len(cur'.hedge) = 1
    /\ cur'.prices \in df.px[i + 1] /\ cur'.hedge[1] \in df.hr
    /\ position' = <<[type |-> type, entry_date |-> IndexDate(i),
                      entry_zscore |-> cur'.zscore[1],
                      stock1_price |-> cur'.prices[1], stock2_price |-> cur'.prices[2],
                      hedge_ratio |-> cur'.hedge[1]]>>

\* C3 as stated: on a flat bar with a defined z-score, reaching the threshold
\* opens the position with no further condition
C3_EntryUnconditional ==
    [][BarStep /\ position = None /\ ~isna(cur'.zscore) =>
         /\ cur'.zscore[1] <= -entry_threshold => Opens("LONG")
         /\ cur'.zscore[1] >= entry_threshold => Opens("SHORT")]_vars

\* C3 amended: reaching the threshold opens the position exactly when the bar
\* also passes the entry filter; otherwise the simulator stays flat
C3_EntryFiltered ==
    [][BarStep /\ position = None /\ ~isna(cur'.zscore) =>
         /\ cur'.zscore[1] <= -entry_threshold /\ FilterAccepts(cur'.filter) => Opens("LONG")
         /\ cur'.zscore[1] >= entry_threshold /\ FilterAccepts(cur'.filter) => Opens("SHORT")
         /\ ~FilterAccepts(cur'.filter) => position' = None
         /\ (-entry_threshold < cur'.zscore[1] /\ cur'.zscore[1] < entry_threshold)
               => position' = None]_vars

C3_Witness ==
    /\ position # None /\ position[1].type = "LONG"
    /\ cur.index = position[1].entry_date
    /\ cur.zscore = <<-entry_threshold>>
    /\ cur.filter = <<(<<30>>), (<<49>>), (<<4>>)>>

\* this step appends one trade with the given reason and returns to flat
Closes(reason) ==
    /\ position' = None
    /\ Len(trades') = Len(trades) + 1
    /\ SubSeq(trades', 1, Len(trades)) = trades
    /\ Last(trades').Exit_Reason = reason

\* C4: with a position open and a defined z-score, LONG closes on z >= 0
\* (Mean Reversion) or z < entry - 1.5 (Stop Loss), SHORT on z <= 0 or
\* z > entry + 1.5, and otherwise position and ledger are untouched
C4_ExitRules ==
    [][BarStep /\ position # None /\ ~isna(cur'.zscore) =>
         LET p == position[1]
             z == cur'.zscore[1]
             Stays == position' = position /\ trades' = trades
         IN  IF p.type = "LONG"
             THEN IF z >= 0 THEN Closes("Mean Reversion")
                  ELSE IF z < fsub(p.entry_zscore, OneAndHalf) THEN Closes("Stop Loss")
                  ELSE Stays
             ELSE IF z <= 0 THEN Closes("Mean Reversion")
                  ELSE IF z > fadd(p.entry_zscore, OneAndHalf) THEN Closes("Stop Loss")
                  ELSE Stays]_vars

C4_Witness ==
    /\ Len(trades) >= 2
    /\ trades[1].Exit_Reason = "Stop Loss" /\ trades[1].Position = "SHORT"
    /\ trades[2].Exit_Reason = "Mean Reversion" /\ trades[2].Position = "LONG"

\* C5: a position still open when the series ends adds no trade: the
\* returned ledger holds one trade per exit signal, i.e. per entry that was
\* closed, and returning appends nothing
C5_OpenPositionDropped ==
    /\ [](pc = "returned" =>
            /\ Len(trades) = entries - Len(position)
            /\ position # None =>
                 \A k \in 1..Len(trades) : trades[k].Entry_Date # position[1].entry_date)
    /\ [][/\ pc' = "returned" => trades' = trades
          /\ trades' # trades =>
               /\ BarStep /\ position # None /\ position' = None
               /\ Len(trades') = Len(trades) + 1
               /\ Last(trades').Entry_Date = position[1].entry_date]_vars

C5_Witness == pc = "returned" /\ position # None /\ Len(trades) >= 1

\* C6: a bar whose z-score is NaN leaves the ledger and the position (or the
\* flat state) exactly as they were
C6_NaNBarSkipped ==
    [][BarStep /\ isna(cur'.zscore) =>
         position' = position /\ trades' = trades /\ entries' = entries]_vars

C6_Witness ==
    /\ cur.index >= 0 /\ isna(cur.zscore)
    /\ position # None /\ position[1].type = "SHORT"
    /\ Len(trades) >= 1

\* the spacing of the floats around c
Ulp(c) == 2^RoundExp(Abs(c), 1, 0)

AllocationRule(t) ==
    /\ t.Stock1_Capital = fdiv(capital, fadd(Scale, Abs(FrameHedge)))
    /\ t.Stock2_Capital = fsub(capital, t.Stock1_Capital)
    /\ t.Stock1_Capital >= 0 /\ t.Stock2_Capital >= 0

\* C8 as stated: the allocations follow the rule, are non-negative and
\* Total_Capital is exactly the capital
C8_AllocationsSumExactly ==
    \A k \in 1..Len(trades) :
        AllocationRule(trades[k]) /\ trades[k].Total_Capital = capital

\* C8 amended: the allocations follow the rule, are non-negative and at most
\* the capital, and Total_Capital is the capital up to one rounding step
C8_AllocationsSumRounded ==
    \A k \in 1..Len(trades) :
        /\ AllocationRule(trades[k])
        /\ trades[k].Stock1_Capital <= capital /\ trades[k].Stock2_Capital <= capital
        /\ Abs(trades[k].Total_Capital - capital) <= Ulp(capital)

C8_Witness == Len(trades) = 2 /\ FrameHedge < 0 /\ trades[1].Stock1_Capital > 0

\* C9: total PnL is the sum of the leg PnLs with the signs of the side, the
\* SHORT trade over the same prices, hedge ratio and capital is the exact
\* negation of the LONG trade, and percent PnL is total / capital * 100
C9_PnL ==
    \A k \in 1..Len(trades) :
        LET t == trades[k]
            leg1 == IF t.Position = "LONG"
                    THEN fmul(t.Stock1_Shares, fsub(t.Entry_Stock1_Price, t.Exit_Stock1_Price))
                    ELSE fmul(t.Stock1_Shares, fsub(t.Exit_Stock1_Price, t.Entry_Stock1_Price))
            leg2 == IF t.Position = "LONG"
                    THEN fmul(t.Stock2_Shares, fsub(t.Exit_Stock2_Price, t.Entry_Stock2_Price))
                    ELSE fmul(t.Stock2_Shares, fsub(t.Entry_Stock2_Price, t.Exit_Stock2_Price))
        IN  /\ t.PnL = fadd(leg1, leg2)
            /\ t.PnL_pct = fmul(fdiv(t.PnL, capital), Hundred)
            /\ \A j \in 1..Len(trades) :
                 (/\ trades[j].Position # t.Position
                  /\ trades[j].Entry_Stock1_Price = t.Entry_Stock1_Price
                  /\ trades[j].Entry_Stock2_Price = t.Entry_Stock2_Price
                  /\ trades[j].Exit_Stock1_Price = t.Exit_Stock1_Price
                  /\ trades[j].Exit_Stock2_Price = t.Exit_Stock2_Price
                  /\ trades[j].Hedge_Ratio = t.Hedge_Ratio) => trades[j].PnL = -t.PnL

C9_Witness ==
    /\ Len(trades) = 2
    /\ trades[1].Position = "LONG" /\ trades[2].Position = "SHORT"
    /\ trades[1].PnL > 0 /\ trades[2].PnL = -trades[1].PnL

\* C7 as stated: bars are evaluated from index window on, and on a frame
\* built by run_test the rolling z-score is NaN on every bar before window
C7_NoSignalBeforeWindow ==
    /\ cur.index >= 0 => cur.index >= zscore_window
    /\ caller = "run_test" =>
         \A k \in 0..(zscore_window - 1) : k < df_len => df.zs[k + 1] = {NaN}

\* C7 amended: bars are evaluated from index window on; the rolling z-score
\* is NaN on every bar before window - 1 (bar window - 1 has a full window)
C7_NoSignalBeforeFullWindow ==
    /\ cur.index >= 0 => cur.index >= zscore_window
    /\ caller = "run_test" =>
         \A k \in 0..(zscore_window - 2) : k < df_len => df.zs[k + 1] = {NaN}

C7_Witness ==
    /\ caller = "run_test"
    /\ cur.index = zscore_window
    /\ df.zs[zscore_window] # {NaN}

\* C10: the backtest of a screened pair regresses the screener's dependent
\* leg (Stock_2) on the screener's independent leg (Stock_1) and so uses
\* the hedge ratio the screener reported, for both directions
C10_SameRegression ==
    caller = "run_test" =>
        /\ ticker1 = results[1].Stock_1
        /\ ticker2 = results[1].Stock_2
        /\ SameRatio(stats.hedge_ratio, results[1].Hedge_Ratio)

----------------------------------------------------------------------------
(* generate_results and the metric functions                               *)

MetricFields == {"Total_Trades", "Win_Rate", "Profit_factor", "Total_PnL", "CAGR",
                 "Annualized_Return", "Max_Drawdown", "Max_Drawdown_pct",
                 "Sharpe_ratio", "Sortino_ratio", "Calmar_ratio", "Volatility"}

\* generate_results has run on the ledger
Reported == report # NoReport

\* C11: on a ledger without a trade generate_results still returns the
\* result, and every metric in it is 0
C11_ZeroTradesAllZero ==
    (Reported /\ trades = <<>>) =>
        /\ report.error = ""
        /\ \A f \in MetricFields : report.result[1][f].v = <<0>>

\* the largest equity[j] - equity[k], j <= k, of the curve cap + cumulative PnL
PeakToEquity(pnl_series, cap) ==
    LET equity == [k \in 1..Len(pnl_series) |->
                      fadd(cap, fsum([j \in 1..k |-> pnl_series[j][1]]))]
    IN  SeqMax([k \in 1..Len(equity) |->
                   SeqMax([j \in 1..k |-> fsub(equity[j], equity[k])])])

\* C13: on a ledger with trades the result reports Max Drawdown ($) as the
\* largest peak-minus-equity of the curve capital + cumulative PnL and
\* Max Drawdown (%) as that amount over the pair's capital times 100
C13_DrawdownUsesCapital ==
    (Reported /\ trades # <<>>) =>
        /\ report.error = ""
        /\ report.result[1].Max_Drawdown.v = <<PeakToEquity(pnl_column(trades), capital)>>
        /\ report.result[1].Max_Drawdown_pct.v =
               <<fmul(fdiv(PeakToEquity(pnl_column(trades), capital), capital), Hundred)>>

Winners(pnl_series) == \E k \in 1..Len(pnl_series) : ~isna(pnl_series[k]) /\ pnl_series[k][1] > 0
Losers(pnl_series) == \E k \in 1..Len(pnl_series) : ~isna(pnl_series[k]) /\ pnl_series[k][1] < 0

\* C12: for a positive initial capital both drawdowns are >= 0; the profit
\* factor is a number >= 0 or +infinity: 0 for an empty ledger and for one
\* without winner and loser, +infinity with winners and no loser
C12_NonNegative ==
    /\ (calc.fn = "calculate_max_drawdown" /\ calc.initial_capital > 0) =>
           calc.value[1] >= 0 /\ calc.value[2] >= 0
    /\ calc.fn = "calculate_profit_factor" =>
           /\ calc.value = Inf \/ (Len(calc.value) = 1 /\ calc.value[1] >= 0)
           /\ calc.pnl_series = <<>> => calc.value = <<0>>
           /\ (~Winners(calc.pnl_series) /\ ~Losers(calc.pnl_series)) => calc.value = <<0>>
           /\ (Winners(calc.pnl_series) /\ ~Losers(calc.pnl_series)) => calc.value = Inf

C12_Witness ==
    /\ calc.fn = "calculate_profit_factor"
    /\ calc.value = Inf
    /\ Len(calc.pnl_series) = MaxTrades
    /\ \E k \in 1..Len(calc.pnl_series) : isna(calc.pnl_series[k])

\* C14: calculate_cagr and calculate_annualized_return return 0 whenever the
\* span of the index is not positive or capital + total PnL is not positive
C14_ZeroWhenNotPositive ==
    calc.fn \in {"calculate_cagr", "calculate_annualized_return"} =>
        LET span_positive == calc.date_index # <<>> /\ total_days_of(calc.date_index) > 0
            final_value == calc.initial_capital + series_sum(calc.pnl_series)
        IN  (~span_positive \/ final_value <= 0) => calc.value = <<0>>

\* the values of a field the average is meant to take: numbers that are
\* neither zero, nor absent, nor NaN or infinite
Finite(x) == x.t \in {"int", "int64", "float"} /\ Len(x.v) = 1 /\ x.v # <<0>>

Column(batch, key) == [k \in 1..Len(batch) |-> batch[k][key]]

NumericField(batch, key) ==
    \E k \in 1..Len(batch) : batch[k][key].t \in {"int", "int64", "float"}

\* the mean of whole numbers and floats, as a float
Mean(xs) ==
    IF \A k \in 1..Len(xs) : xs[k].t # "float"
    THEN Rnd(SumProd([k \in 1..Len(xs) |-> xs[k].v[1]], Ones(Len(xs)), Len(xs)) * Scale, Len(xs))
    ELSE fdiv(fsum([k \in 1..Len(xs) |-> as_float(xs[k])]), Len(xs) * Scale)

\* C15: for a non-empty batch every numeric field is in the output with the
\* mean of the values that are non-zero, not None and finite, or 0 when no
\* pair has such a value
C15_MeanOfFiniteNonZero ==
    (calc.fn = "calculate_average_metrics" /\ calc.results # <<>>) =>
        \A key \in (DOMAIN calc.results[1]) \ {"Ticker1", "Ticker2"} :
            NumericField(calc.results, key) =>
                LET xs == SelectSeq(Column(calc.results, key), Finite)
                IN  /\ key \in DOMAIN calc.value
                    /\ calc.value[key].v = IF xs = <<>> THEN <<0>> ELSE <<Mean(xs)>>

\* C16 as stated: every non-numeric field of the first result, Ticker1 and
\* Ticker2 included, is in the output with the first result's value
C16_NonNumericPassedThrough ==
    (calc.fn = "calculate_average_metrics" /\ calc.results # <<>>) =>
        \A key \in DOMAIN calc.results[1] :
            calc.results[1][key].t \in {"str", "NoneType"} =>
                key \in DOMAIN calc.value /\ calc.value[key] = calc.results[1][key]

\* C16 amended: every field of the first result other than Ticker1 and
\* Ticker2 whose value is not an int or a float is in the output with the
\* first result's value; Ticker1 and Ticker2 are not in the output
C16_NonNumericExceptTickers ==
    (calc.fn = "calculate_average_metrics" /\ calc.results # <<>>) =>
        /\ \A key \in (DOMAIN calc.results[1]) \ {"Ticker1", "Ticker2"} :
              calc.results[1][key].t \notin {"int", "float"} =>
                  key \in DOMAIN calc.value /\ calc.value[key] = calc.results[1][key]
        /\ "Ticker1" \notin DOMAIN calc.value
        /\ "Ticker2" \notin DOMAIN calc.value

C16_Witness ==
    /\ calc.fn = "calculate_average_metrics"
    /\ Len(calc.results) >= 2
    /\ "Ticker1" \in DOMAIN calc.results[1]
    /\ "Ticker1" \notin DOMAIN calc.value
    /\ calc.results[1].Hedge_Ratio = PyNone
    /\ calc.results[2].Hedge_Ratio # PyNone
    /\ calc.value.Hedge_Ratio = PyNone

----------------------------------------------------------------------------
(* find_cointegrated_pairs                                                 *)

\* C17: every candidate in results passes all seven gates: cointegration
\* p <= 0.01, spread ADF p <= 0.05, half-life present and in [10, 30],
\* Hurst < 0.5, at least 15 zero crossings, reversion rate absent or >= 75,
\* and a defined current z-score of magnitude at most 3.5
C17_AllSevenGates ==
    \A k \in 1..Len(results) :
        LET r == results[k]
        IN  /\ r.Coint_PValue <= GatePValue
            /\ r.diag.adf <= GateAdfPValue
            /\ r.diag.half_life # None
            /\ GateHalfLifeMin <= r.diag.half_life[1] /\ r.diag.half_life[1] <= GateHalfLifeMax
            /\ r.diag.hurst < GateHurst
            /\ r.diag.zero_crossings >= GateZeroCrossings
            /\ r.diag.reversion_rate = None \/ r.diag.reversion_rate[1] >= GateReversionRate
            /\ ~isna(r.diag.current_zscore)
            /\ Abs(r.diag.current_zscore[1]) <= GateZScore

Min(a, b) == IF a <= b THEN a ELSE b
Max(a, b) == IF a >= b THEN a ELSE b

\* the loop has taken a pair
Taken == cur_pair # NoPair

\* C18: a pair with no p-value below the maximum appends nothing; a
\* candidate carries the lower p-value as Coint_PValue and the higher as
\* Alt_PValue, and its Stock_2 is the first argument of the coint call
\* with the lower p-value (coint(ticker1, ticker2) gave pvalue1)
C18_CanonicalDirection ==
    Taken =>
        /\ ~(cur_pair.pvalue1 < MaxPValue \/ cur_pair.pvalue2 < MaxPValue) =>
               cur_pair.appended = <<>>
        /\ cur_pair.appended # <<>> =>
               LET r == cur_pair.appended[1]
               IN  /\ Last(results) = r
                   /\ r.Coint_PValue = Min(cur_pair.pvalue1, cur_pair.pvalue2)
                   /\ r.Alt_PValue = Max(cur_pair.pvalue1, cur_pair.pvalue2)
                   /\ {r.Stock_1, r.Stock_2} = {cur_pair.pair[1], cur_pair.pair[2]}
                   /\ cur_pair.pvalue1 < cur_pair.pvalue2 => r.Stock_2 = cur_pair.pair[1]
                   /\ cur_pair.pvalue2 < cur_pair.pvalue1 => r.Stock_2 = cur_pair.pair[2]

C18_Witness ==
    /\ Taken /\ Len(results) >= 2
    /\ cur_pair.pvalue1 < cur_pair.pvalue2
    /\ cur_pair.appended # <<>>
    /\ results[1].Optimal_Direction = 2

\* this step is one iteration of the loop over pairs_to_test
PairStep == pc = "scan" /\ pair_idx' = pair_idx + 1

\* C19: an iteration on a pair with fewer than 100 overlapping bars leaves
\* tested and results as they were and the loop goes on to the next pair;
\* the loop returns only after it has taken every pair
C19_ShortOverlapSkipped ==
    /\ [][(PairStep /\ cur_pair'.n_overlap < MinOverlap) =>
             /\ tested' = tested
             /\ results' = results
             /\ pc' = "scan"
             /\ pairs_to_test' = pairs_to_test
             /\ cur_pair'.pair = pairs_to_test[pair_idx + 1]]_vars
    /\ [][(pc = "scan" /\ pc' # "scan") => pair_idx = Len(pairs_to_test)]_vars
    /\ [](tested <= 2 * pair_idx)

C19_Witness ==
    /\ pair_idx = 2 /\ tested = 2
    /\ cur_pair.n_overlap >= MinOverlap
    /\ cur_pair.appended # <<>>

\* sum over all i, j of (x[i] - x[j]) * (y[i] - y[j])
RECURSIVE CrossSum(_, _, _, _)
CrossSum(x, y, a, b) ==
    IF a > Len(x) THEN 0
    ELSE IF b > Len(x) THEN CrossSum(x, y, a + 1, 1)
    ELSE (x[a] - x[b]) * (y[a] - y[b]) + CrossSum(x, y, a, b + 1)

\* the absolute Pearson correlation of the two columns is undefined or
\* below 0.7
WeaklyCorrelated(x, y) ==
    LET cxy == CrossSum(x, y, 1, 1)
        cxx == CrossSum(x, x, 1, 1)
        cyy == CrossSum(y, y, 1, 1)
    IN  cxx = 0 \/ cyy = 0 \/ 100 * cxy * cxy < 49 * cxx * cyy

Degenerate(dat) ==
    \/ Cardinality(DOMAIN dat) < 2
    \/ \A t \in DOMAIN dat : Len(dat[t]) = 0
    \/ \A t \in DOMAIN dat, u \in DOMAIN dat : t # u => WeaklyCorrelated(dat[t], dat[u])

\* C20: on a matrix that is empty, has fewer than 2 columns or has no pair
\* of columns reaching the minimum correlation, find_cointegrated_pairs
\* returns the empty list: it raises nothing and screens no pair
C20_DegenerateMatrix ==
    (caller = "none" /\ pc # "idle" /\ Degenerate(data)) =>
        /\ pc \in {"scanned", "loaded", "backtested"}
        /\ results = <<>>
        /\ pairs_to_test = <<>>
        /\ tested = 0
        /\ ~Taken

C20_Witness ==
    /\ pc = "scanned" /\ results = <<>>
    /\ data = [A |-> Series("zig", MaxBars), B |-> Series("ramp", MaxBars)]

----------------------------------------------------------------------------
(* run_scanner and the failures of one sector or one pair                  *)

\* this step is run_scanner taking one sector
SectorStep == pc = "sectors" /\ sweep'.idx = sweep.idx + 1

\* the download gave nothing to scan: it raised, it was empty, no ticker had
\* enough prices, or too few aligned rows were left
Unusable(raw) ==
    \/ raw.raises
    \/ raw.empty
    \/ \A t \in DOMAIN raw.frame : raw.points[t] <= MinHistory
    \/ raw.rows < MinRequiredPoints

\* C21: whatever the fetch of a sector does (too few aligned rows, no usable
\* column, an error), run_scanner skips the sector, keeps the results of the
\* earlier sectors and goes on with the next sector without raising
C21_BadFetchSkipsSector ==
    [][(SectorStep /\ Unusable(sweep'.raw)) =>
          (pc' = "sectors" /\ sweep'.all_results = sweep.all_results)]_vars

\* this step is the loop of find_cointegrated_pairs taking a pair whose body raised
ScreenFailure == pc = "scan" /\ pair_idx' = pair_idx + 1 /\ cur_pair'.failed

\* this step is the loop of run_backtests ending a pair whose run_test raised
BacktestFailure == pc = "raised" /\ caller = "run_test" /\ backtests'.idx = backtests.idx + 1

\* C22: a failure while one pair is screened or backtested is caught at that
\* pair and logged; the pair adds no result, the results before it are
\* unchanged and the loop goes on with the next pair
C22_PairFailureIsolated ==
    /\ [][ScreenFailure =>
            /\ Len(log') = Len(log) + 1
            /\ results' = results
            /\ pc' = "scan"]_vars
    /\ [][BacktestFailure =>
            /\ Len(log') = Len(log) + 1
            /\ backtests'.results = backtests.results
            /\ pc' = "loaded"]_vars

\* the unordered pair of tickers of a result
Legs(r) == {r.Stock_1, r.Stock_2}

\* C23: a second call of find_cointegrated_pairs on the same price matrix
\* returns the list the first call returned, the same results in the same
\* order, and no unordered pair of tickers is in a returned list twice
C23_SameListTwice ==
    pc = "scanned" =>
        /\ first_run # None => results = first_run[1]
        /\ \A a, b \in 1..Len(results) : a # b => Legs(results[a]) # Legs(results[b])

\* the second call has returned a list of two results or more, found in
\* both directions
C23_Witness ==
    /\ pc = "scanned"
    /\ first_run # None
    /\ Len(results) >= 2
    /\ \E a, b \in 1..Len(results) :
           results[a].Optimal_Direction = 1 /\ results[b].Optimal_Direction = 2

----------------------------------------------------------------------------
(* calculate_spread_stats                                                  *)

\* calculate_spread_stats has returned
StatsReturned == calc.kind = "stats" /\ calc.fn = "calculate_spread_stats"

\* the call took the except branch
TookFallback == Len(calc.stock_x) # Len(calc.stock_y) \/ calc.zscore_window < 0

\* the spread is not constant over rows a..b
SpreadMoves(a, b) ==
    \E j, k \in a..b :
        calc.value.spread_series[j] # calc.value.spread_series[k]

\* C24: the spread series and the rolling z-score series of a result have
\* the same length, the fallback included; on the normal path that length is
\* the length of the input, the first window-1 z-scores are NaN, and the
\* z-score at index window-1 is defined when the spread moves in its window
C24_SeriesAligned ==
    StatsReturned =>
        LET st == calc.value
            w  == calc.zscore_window
        IN  /\ Len(st.spread_series) = Len(st.rolling_zscore_series)
            /\ ~TookFallback =>
                 /\ Len(st.spread_series) = Len(calc.stock_x)
                 /\ \A k \in 1..Len(st.rolling_zscore_series) :
                        k < w => isna(st.rolling_zscore_series[k])
                 /\ (w >= 2 /\ w <= Len(calc.stock_x) /\ SpreadMoves(1, w)) =>
                        ~isna(st.rolling_zscore_series[w])

\* a call on the normal path whose window is shorter than the series and
\* whose z-score is NaN before index window-1 and defined there
C24_Witness ==
    /\ StatsReturned
    /\ ~TookFallback
    /\ calc.zscore_window = 3
    /\ Len(calc.stock_x) > 3
    /\ isna(calc.value.rolling_zscore_series[2])
    /\ ~isna(calc.value.rolling_zscore_series[3])

StatsKeys ==
    {"hedge_ratio", "spread", "spread_mean", "spread_std", "current_zscore",
     "full_period_zscore", "halflife", "zscore_mean", "zscore_std", "zscore_min",
     "zscore_max", "reversion_rate", "spread_series", "rolling_zscore_series",
     "hurst", "halflife_series", "adf_pvalue"}

\* C25: calculate_spread_stats returns on every input; when a step of the
\* computation fails, the dict it returns has every key, a hedge ratio of
\* 1.0 that the screener applies with a zero intercept (its spread is
\* y - 1.0 * x), no half-life and no reversion rate (None, not 0), and empty
\* spread and z-score series
C25_SafeDefaults ==
    StatsReturned =>
        LET st == calc.value
        IN  /\ DOMAIN st = StatsKeys
            /\ TookFallback =>
                 /\ st.hedge_ratio[1] = st.hedge_ratio[2]
                 /\ \A k \in 1..Len(calc.stock_x) :
                        k <= Len(calc.stock_y) =>
                            scanner_spread(calc.stock_x, calc.stock_y, st)[k] =
                                st.hedge_ratio[2] * (calc.stock_y[k] - calc.stock_x[k])
                 /\ st.halflife = None /\ st.halflife # <<0>>
                 /\ st.reversion_rate = None /\ st.reversion_rate # <<0>>
                 /\ st.spread_series = <<>>
                 /\ st.rolling_zscore_series = <<>>

\* a call on columns of different lengths has returned the fallback
C25_Witness ==
    /\ StatsReturned
    /\ Len(calc.stock_x) = 3
    /\ Len(calc.stock_y) = 5
    /\ calc.zscore_window = 2
    /\ calc.value.halflife = None
    /\ calc.value.spread_series = <<>>

----------------------------------------------------------------------------
(* The reversion rate                                                      *)

RateReturned == calc.kind = "zscores" /\ calc.fn = "reversion_rate"

\* row k (0-based) of the series the rate was computed from
ZAt(k) == calc.rolling_zscore[k + 1]

\* the z-score of row k is defined and reaches the entry threshold
Reaches(k) == ~isna(ZAt(k)) /\ Abs(ZAt(k)[1]) >= calc.zscore_entry_threshold

\* within the 20 rows after row k the z-score crosses zero or comes within
\* 0.5 of it
Reverts(k) ==
    \E j \in (k + 1)..(k + 20) :
        /\ j < Len(calc.rolling_zscore)
        /\ ~isna(ZAt(j))
        /\ \/ ZAt(k)[1] > 0 /\ 2 * ZAt(j)[1] < Scale
           \/ ZAt(k)[1] < 0 /\ 2 * ZAt(j)[1] > -Scale

\* the rate of a set of occurrences: absent when the set is empty, else the
\* share of its rows that revert, as a percentage in [0, 100]
RateOver(rows) ==
    LET succ == {k \in rows : Reverts(k)}
    IN  IF rows = {} THEN calc.value = None
        ELSE /\ calc.value = <<fmul(fdiv(Cardinality(succ) * Scale,
                                         Cardinality(rows) * Scale), Hundred)>>
             /\ calc.value[1] >= 0
             /\ calc.value[1] <= Hundred

\* C26 as stated: every row from index window on that reaches the threshold
\* is an occurrence, the rows at the end of the series included
C26_EveryBarCounts ==
    RateReturned =>
        RateOver({k \in calc.zscore_window..(Len(calc.rolling_zscore) - 1) : Reaches(k)})

\* C26: the occurrences are the rows window <= i < len - 10 that reach the
\* threshold; a row in the last 10 is never an occurrence, and the look-ahead
\* of a row stops at the end of the series
C26_LastTenBarsLeftOut ==
    RateReturned =>
        RateOver({k \in calc.zscore_window..(Len(calc.rolling_zscore) - 11) : Reaches(k)})

\* a rate strictly between 0 and 100 on a series whose last 10 rows reach
\* the threshold as well
C26_Witness ==
    /\ RateReturned
    /\ calc.value # None
    /\ calc.value[1] > 0
    /\ calc.value[1] < Hundred
    /\ \E k \in (Len(calc.rolling_zscore) - 10)..(Len(calc.rolling_zscore) - 1) : Reaches(k)

----------------------------------------------------------------------------
(* The half-life of the stats                                              *)

\* the fit gave a half-life: more than 10 points and a negative theta
Fitted == calc.n_points > 10 /\ calc.theta_sign < 0

\* C27: the half-life of the stats is absent or in (0, 365]: a fitted
\* half-life is kept exactly when it is greater than 0 and at most 365 days,
\* 365 itself included, and is absent when theta >= 0 or it is out of range
C27_HalfLifeUpTo365 ==
    (calc.kind = "fit" /\ calc.fn = "calculate_half_life") =>
        /\ calc.value = None \/ (calc.value[1] > 0 /\ calc.value[1] <= 365)
        /\ (Fitted /\ calc.quotient > 0 /\ calc.quotient <= 365) => calc.value = <<calc.quotient>>
        /\ (~Fitted \/ calc.quotient <= 0 \/ calc.quotient > 365) => calc.value = None

----------------------------------------------------------------------------
(* run_test and the ledger of backtest_pair                                *)

\* this step evaluates a flat bar whose z-score reaches the entry threshold
SignalBar ==
    /\ pc = "loop" /\ i < df_len /\ cur'.index = i
    /\ position = None
    /\ ~isna(cur'.zscore)
    /\ (cur'.zscore[1] <= -entry_threshold \/ cur'.zscore[1] >= entry_threshold)

\* C28: the frame run_test hands to backtest_pair carries every column the
\* simulator and its entry filter read, so a flat bar whose z-score reaches
\* the entry threshold is evaluated without a missing column
C28_RunTestFillsColumns ==
    /\ [](caller = "run_test" => df.filter_cols)
    /\ [][(caller = "run_test" /\ SignalBar) => pc' = "loop"]_vars

\* the exit conditions of a position of side type entered at z-score e, on
\* a bar of z-score z
MeanReverted(type, z) == (type = "LONG" /\ z >= 0) \/ (type = "SHORT" /\ z <= 0)
Stopped(type, e, z) ==
    \/ type = "LONG" /\ z < fsub(e, OneAndHalf)
    \/ type = "SHORT" /\ z > fadd(e, OneAndHalf)

\* C29: with a positive entry threshold every trade of the ledger agrees
\* with its side and its exit reason: LONG entered at z <= -threshold, SHORT
\* at z >= threshold; a Mean Reversion exit at z >= 0 for LONG, z <= 0 for
\* SHORT; a Stop Loss exit more than 1.5 beyond the entry z-score; the Exit
\* Reason is one of the two, and on no bar do both exit conditions hold
C29_TradesAgreeWithRules ==
    /\ [](entry_threshold > 0 =>
            \A k \in 1..Len(trades) :
                LET t == trades[k]
                IN  /\ t.Position \in {"LONG", "SHORT"}
                    /\ t.Position = "LONG" => t.Entry_ZScore <= -entry_threshold
                    /\ t.Position = "SHORT" => t.Entry_ZScore >= entry_threshold
                    /\ t.Exit_Reason \in {"Mean Reversion", "Stop Loss"}
                    /\ t.Exit_Reason = "Mean Reversion" =>
                           MeanReverted(t.Position, t.Exit_ZScore)
                    /\ t.Exit_Reason = "Stop Loss" =>
                           Stopped(t.Position, t.Entry_ZScore, t.Exit_ZScore))
    /\ [][(entry_threshold > 0 /\ BarStep /\ position # None /\ ~isna(cur'.zscore)) =>
            ~(/\ MeanReverted(position[1].type, cur'.zscore[1])
              /\ Stopped(position[1].type, position[1].entry_zscore, cur'.zscore[1]))]_vars

\* a ledger with a LONG trade stopped out and a SHORT trade that reverted
C29_Witness ==
    /\ entry_threshold > 0
    /\ \E a, b \in 1..Len(trades) :
          /\ trades[a].Position = "LONG" /\ trades[a].Exit_Reason = "Stop Loss"
          /\ trades[b].Position = "SHORT" /\ trades[b].Exit_Reason = "Mean Reversion"

----------------------------------------------------------------------------
(* The running peak of calculate_max_drawdown                              *)

DrawdownReturned == calc.kind = "series" /\ calc.fn = "calculate_max_drawdown"

\* every trade of the series lost money
StrictlyLosing(pnl_series) ==
    pnl_series # <<>> /\ \A k \in 1..Len(pnl_series) : ~isna(pnl_series[k]) /\ pnl_series[k][1] < 0

\* the exact sum of the values of rows a..b
RECURSIVE ExactSum(_, _, _)
ExactSum(pnl_series, a, b) ==
    IF a > b THEN 0 ELSE pnl_series[b][1] + ExactSum(pnl_series, a, b - 1)

\* no floating-point operation of the equity curve rounded
Unrounded(pnl_series, initial_capital) ==
    \A k \in 1..Len(pnl_series) :
        equity_curve(pnl_series, initial_capital)[k] =
            <<initial_capital + ExactSum(pnl_series, 1, k)>>

====
